---- MODULE Spec2Model ----
(***************************************************************************)
(* A model of the WebServer core: the indexed min-heap of inactivity       *)
(* timers (HeapTimer), the database connection pool (SqlConnPool), the     *)
(* byte buffer (Buffer) with the logger's use of it, and the reactor with  *)
(* its worker tasks (WebServer).  Each component has its own               *)
(* specification over its own variables; the server specification, Spec,   *)
(* embeds the timer.                                                       *)
(***************************************************************************)
EXTENDS Integers, Sequences, FiniteSets, TLC

VARIABLES
    now,        \* Clock::now(), in clock ticks (TicksPerMs ticks per millisecond)
    timer_,     \* HeapTimer: [heap_, ref_, corrupt]
    lastFired,  \* the callbacks run by the last HeapTimer operation, in order
    connQue_,   \* SqlConnPool: the queue of free handles (NullSql: a failed connect)
    semId_,     \* SqlConnPool: the value of the semaphore
    mtx_,       \* SqlConnPool: the owner of the mutex, or NoThread
    poolPc,     \* each pool user's position in GetConn / FreeConn
    poolSql,    \* each pool user's local "sql"
    opened,     \* the handles SqlConnPool::Init connected
    buff_,      \* Buffer: [buffer_, readPos_, writePos_]
    shadow,     \* the bytes appended and not yet retrieved, kept beside the buffer
    bufOp,      \* the last Buffer operation and what MakeSpace_ did in it
    retrieved,  \* the last RetrieveAllToStr: [got, want]
    listenEvent_, \* WebServer: the event mask of the listen socket
    connEvent_, \* WebServer: the event mask of the client sockets
    timeoutMS_, \* WebServer: the inactivity timeout in milliseconds
    port_,      \* WebServer: the port given to the constructor
    listenFd_,  \* WebServer: the listen socket registered with the epoller, or NoListen
    users_,     \* WebServer: fd -> HttpConn [isClose, toWrite, keepAlive, inBuf]
    userCount,  \* HttpConn::userCount
    openFds,    \* the client sockets open in the process
    epoll,      \* Epoller: fd -> NoReg or [ev, armed]
    backlog,    \* clients waiting in the listen queue
    listenEdge, \* a client arrived since the listen event was last reported
    tasks,      \* ThreadPool: the queue of tasks [op, fd]
    wk,         \* each worker thread's task and its locals
    rpc,        \* the reactor's position in Start
    timeMS,     \* Start: the wait timeout
    accepts,    \* the number of successful accept calls
    busySent,   \* the number of "Server busy!" replies
    poolMtx,    \* ThreadPool: the owner of pool->mtx, or NoOwner
    poolTasks,  \* ThreadPool: pool->tasks
    isClosed,   \* ThreadPool: pool->isClosed
    condWait,   \* ThreadPool: the threads blocked in pool->cond.wait
    workerPc,   \* ThreadPool: each worker thread's position in its loop
    workerTask, \* ThreadPool: the task each worker has taken
    ownerPc,    \* the position of the thread that owns the ThreadPool
    added,      \* the tasks passed to AddTask so far
    ran,        \* how often each task was run
    deq_,       \* BlockDeque: the stored items, front first
    isClose_,   \* BlockDeque: the closed flag
    condConsumer_, \* BlockDeque: the threads blocked on condConsumer_
    condProducer_, \* BlockDeque: the threads blocked on condProducer_
    dqPc,       \* each queue user's position in push / pop
    dqArg,      \* the item and end of a push in progress
    ctlPc       \* the position of the thread that closes the queue

varsTimer == <<now, timer_, lastFired>>
varsPool == <<connQue_, semId_, mtx_, poolPc, poolSql, opened>>
varsBuffer == <<buff_, shadow, bufOp, retrieved>>
varsThreadPool == <<poolMtx, poolTasks, isClosed, condWait, workerPc, workerTask,
                   ownerPc, added, ran>>
varsDeque == <<deq_, isClose_, condConsumer_, condProducer_, dqPc, dqArg, ctlPc>>
varsServer == <<port_, listenFd_, listenEvent_, connEvent_, timeoutMS_, users_, userCount, openFds, epoll, backlog,
               listenEdge, tasks, wk, rpc, timeMS, accepts, busySent>>

(***************************************************************************)
(* Bounds of the model.                                                    *)
(***************************************************************************)
\* Clock ticks per millisecond: the clock is finer than the millisecond
\* that duration_cast<MS> truncates to.
TicksPerMs == 2
\* The clock stops advancing here.
MaxTime == 3
\* Timer ids and timeouts (ms) of the stand-alone timer specification.
NumTimerIds == 3
MaxTimeoutMs == 1

\* Widths of size_t and int, scaled down (64 -> 20 bits, 32 -> 10 bits) to
\* what TLC's integers hold; only "size_t is unsigned and wider than int"
\* is used.
SizeBits == 20
IntBits == 10
SizeMod == 2 ^ SizeBits
IntMod == 2 ^ IntBits

\* A value converted to size_t.
ToSizeT(v) == v % SizeMod
\* A size_t converted to int (the low bits, two's complement).
ToInt(u) ==
    LET low == u % IntMod
    IN  IF low >= IntMod \div 2 THEN low - IntMod ELSE low

(***************************************************************************)
(* HeapTimer                                                               *)
(***************************************************************************)
TimerIds == 1 .. NumTimerIds
TimerCbs == {"cbA", "cbB"}

\* std::unordered_map: operator[] assignment and erase.
MapPut(m, k, v) == [x \in (DOMAIN m) \cup {k} |-> IF x = k THEN v ELSE m[x]]
MapErase(m, k) == [x \in (DOMAIN m) \ {k} |-> m[x]]

\* MS(timeout) added to a time point.
MS(timeout) == timeout * TicksPerMs
\* std::chrono::duration_cast<MS>(d).count(): truncation toward zero.
DurationCastMS(d) == IF d >= 0 THEN d \div TicksPerMs ELSE -((-d) \div TicksPerMs)

TimerNode(id, expires, cb) == [id |-> id, expires |-> expires, cb |-> cb]
\* TimerNode::operator<
NodeLess(a, b) == a.expires < b.expires

EmptyTimer == [heap_ |-> <<>>, ref_ |-> <<>>, corrupt |-> FALSE]
HeapSize(t) == Len(t.heap_)
\* heap_[i], i counted from 0 as in the code.
HeapAt(t, i) == t.heap_[i + 1]

SwapNode_(t, i, j) ==
    LET a == HeapAt(t, i)
        b == HeapAt(t, j)
        h == [t.heap_ EXCEPT ![i + 1] = b, ![j + 1] = a]
        r1 == MapPut(t.ref_, h[i + 1].id, i)
        r2 == MapPut(r1, h[j + 1].id, j)
    IN  [t EXCEPT !.heap_ = h, !.ref_ = r2]

\* siftup_: j = (i - 1) / 2 in size_t, and "while (j >= 0)" never ends the
\* loop.  At i = 0 the parent index wraps to (2^w - 1) / 2 and heap_[j] is
\* read outside the vector: oobLess is what that comparison yields.  When it
\* yields "not less", SwapNode_ exchanges heap_[0] with memory outside the
\* vector and the loop goes on from there: the heap is corrupt.
RECURSIVE siftup_(_, _, _)
siftup_(t, i, oobLess) ==
    LET j == ToSizeT(i - 1) \div 2
    IN  IF j >= HeapSize(t)
        THEN IF oobLess THEN t ELSE [t EXCEPT !.corrupt = TRUE]
        ELSE IF NodeLess(HeapAt(t, j), HeapAt(t, i))
             THEN t
             ELSE siftup_(SwapNode_(t, i, j), j, oobLess)

RECURSIVE SiftDownLoop(_, _, _)
SiftDownLoop(t, i, n) ==
    LET j0 == i * 2 + 1
    IN  IF j0 >= n
        THEN [t |-> t, i |-> i]
        ELSE LET j == IF j0 + 1 < n /\ NodeLess(HeapAt(t, j0 + 1), HeapAt(t, j0))
                      THEN j0 + 1 ELSE j0
             IN  IF NodeLess(HeapAt(t, i), HeapAt(t, j))
                 THEN [t |-> t, i |-> i]
                 ELSE SiftDownLoop(SwapNode_(t, i, j), j, n)

\* siftdown_ returns whether the node moved (i > index).
siftdown_(t, index, n) ==
    LET r == SiftDownLoop(t, index, n)
    IN  [t |-> r.t, moved |-> r.i > index]

\* HeapTimer::add at clock reading clk.
add(t, id, timeout, cb, clk, oobLess) ==
    IF id \notin DOMAIN t.ref_
    THEN LET i == HeapSize(t)
             t1 == [t EXCEPT !.ref_ = MapPut(@, id, i),
                             !.heap_ = Append(@, TimerNode(id, clk + MS(timeout), cb))]
         IN  siftup_(t1, i, oobLess)
    ELSE LET i == t.ref_[id]
             t1 == [t EXCEPT !.heap_[i + 1].expires = clk + MS(timeout),
                             !.heap_[i + 1].cb = cb]
             r == siftdown_(t1, i, HeapSize(t1))
         IN  IF ~r.moved THEN siftup_(r.t, i, oobLess) ELSE r.t

\* HeapTimer::del_
del_(t, index, oobLess) ==
    LET i == index
        n == HeapSize(t) - 1
        t1 == IF i < n
              THEN LET s == SwapNode_(t, i, n)
                       r == siftdown_(s, i, n)
                   IN  IF ~r.moved THEN siftup_(r.t, i, oobLess) ELSE r.t
              ELSE t
    IN  [t1 EXCEPT !.ref_ = MapErase(@, t1.heap_[Len(t1.heap_)].id),
                   !.heap_ = SubSeq(@, 1, Len(@) - 1)]

\* HeapTimer::adjust (its assert is the guard of the action that calls it).
adjust(t, id, timeout, clk) ==
    LET t1 == [t EXCEPT !.heap_[t.ref_[id] + 1].expires = clk + MS(timeout)]
    IN  siftdown_(t1, t1.ref_[id], HeapSize(t1)).t

\* HeapTimer::pop
pop(t, oobLess) == del_(t, 0, oobLess)

\* HeapTimer::doWork: [t, fired], fired the callbacks it ran.
doWork(t, id, oobLess) ==
    IF t.heap_ = <<>> \/ id \notin DOMAIN t.ref_
    THEN [t |-> t, fired |-> <<>>]
    ELSE LET i == t.ref_[id]
         IN  [t |-> del_(t, i, oobLess), fired |-> <<HeapAt(t, i)>>]

\* The expiry test of tick.
Expired(node, clk) == ~(DurationCastMS(node.expires - clk) > 0)

\* HeapTimer::tick: [t, fired].  The loop stops when the heap is corrupt.
RECURSIVE TickLoop(_, _, _, _)
TickLoop(t, fired, clk, oobLess) ==
    IF t.heap_ = <<>> \/ t.corrupt
    THEN [t |-> t, fired |-> fired]
    ELSE LET node == HeapAt(t, 0)
         IN  IF ~Expired(node, clk)
             THEN [t |-> t, fired |-> fired]
             ELSE TickLoop(pop(t, oobLess), Append(fired, node), clk, oobLess)

tick(t, clk, oobLess) == TickLoop(t, <<>>, clk, oobLess)

\* The value GetNextTick computes after its tick, at clock reading clk:
\* size_t res = -1 or the millisecond count; "res < 0" is never true of a
\* size_t; the return converts to int.
NextTickValue(t, clk) ==
    LET res == IF t.heap_ # <<>>
               THEN ToSizeT(DurationCastMS(HeapAt(t, 0).expires - clk))
               ELSE ToSizeT(-1)
    IN  ToInt(res)

(***************************************************************************)
(* The stand-alone timer: any sequence of add, adjust, doWork, pop, tick.  *)
(***************************************************************************)
InitTimer ==
    /\ now = 0
    /\ timer_ = EmptyTimer
    /\ lastFired = <<>>

Advance ==
    /\ now < MaxTime
    /\ now' = now + 1
    /\ UNCHANGED <<timer_, lastFired>>
    /\ UNCHANGED <<varsPool, varsBuffer, varsServer, varsThreadPool, varsDeque>>

TimerAdd(id, timeout, cb) ==
    /\ ~timer_.corrupt
    /\ \E oobLess \in BOOLEAN : timer_' = add(timer_, id, timeout, cb, now, oobLess)
    /\ lastFired' = <<>>
    /\ UNCHANGED now
    /\ UNCHANGED <<varsPool, varsBuffer, varsServer, varsThreadPool, varsDeque>>

TimerAdjust(id, timeout) ==
    /\ ~timer_.corrupt
    /\ timer_.heap_ # <<>> /\ id \in DOMAIN timer_.ref_
    /\ timer_' = adjust(timer_, id, timeout, now)
    /\ lastFired' = <<>>
    /\ UNCHANGED now
    /\ UNCHANGED <<varsPool, varsBuffer, varsServer, varsThreadPool, varsDeque>>

TimerDoWork(id) ==
    /\ ~timer_.corrupt
    /\ \E oobLess \in BOOLEAN :
          LET r == doWork(timer_, id, oobLess)
          IN  timer_' = r.t /\ lastFired' = r.fired
    /\ UNCHANGED now
    /\ UNCHANGED <<varsPool, varsBuffer, varsServer, varsThreadPool, varsDeque>>

TimerPop ==
    /\ ~timer_.corrupt
    /\ timer_.heap_ # <<>>
    /\ \E oobLess \in BOOLEAN : timer_' = pop(timer_, oobLess)
    /\ lastFired' = <<>>
    /\ UNCHANGED now
    /\ UNCHANGED <<varsPool, varsBuffer, varsServer, varsThreadPool, varsDeque>>

TimerTick ==
    /\ ~timer_.corrupt
    /\ \E oobLess \in BOOLEAN :
          LET r == tick(timer_, now, oobLess)
          IN  timer_' = r.t /\ lastFired' = r.fired
    /\ UNCHANGED now
    /\ UNCHANGED <<varsPool, varsBuffer, varsServer, varsThreadPool, varsDeque>>

NextTimer ==
    \/ Advance
    \/ \E id \in TimerIds, timeout \in 0 .. MaxTimeoutMs, cb \in TimerCbs :
          TimerAdd(id, timeout, cb)
    \/ \E id \in TimerIds, timeout \in 0 .. MaxTimeoutMs : TimerAdjust(id, timeout)
    \/ \E id \in TimerIds : TimerDoWork(id)
    \/ TimerPop
    \/ TimerTick

(***************************************************************************)
(* SqlConnPool                                                             *)
(***************************************************************************)
\* connSize of Init (MAX_CONN_) and the number of threads using the pool.
PoolSize == 2
NumPoolThreads == 3

PoolThreads == 1 .. NumPoolThreads
Handles == 1 .. PoolSize
\* nullptr: what mysql_real_connect leaves in sql when it fails.
NullSql == 0
NoThread == 0

\* SqlConnPool::Init: every slot is pushed, connected or not; the semaphore
\* starts at MAX_CONN_.
PoolInitQueues ==
    {q \in [1 .. PoolSize -> Handles \cup {NullSql}] :
        \A i \in 1 .. PoolSize : q[i] \in {i, NullSql}}

\* Before SqlConnPool::Init no thread uses the pool.
InitPool ==
    /\ connQue_ = <<>>
    /\ opened = {}
    /\ semId_ = 0
    /\ mtx_ = NoThread
    /\ poolPc = [t \in PoolThreads |-> "start"]
    /\ poolSql = [t \in PoolThreads |-> NullSql]

SqlConnPoolInit(q) ==
    /\ \A t \in PoolThreads : poolPc[t] = "start"
    /\ connQue_' = q
    /\ opened' = {q[i] : i \in 1 .. PoolSize} \ {NullSql}
    /\ semId_' = PoolSize
    /\ poolPc' = [t \in PoolThreads |-> "idle"]
    /\ UNCHANGED <<mtx_, poolSql>>
    /\ UNCHANGED <<varsTimer, varsBuffer, varsServer, varsThreadPool, varsDeque>>

\* GetConn, the locked block: sql = connQue_.front(); connQue_.pop().
GetConnPop_KeepsFront(q) == [sql |-> Head(q), que |-> q]

GetConnPop(q) == [sql |-> Head(q), que |-> Tail(q)]

\* GetConn, the unsynchronised test: an empty queue returns nullptr.
GetConnCheck(t) ==
    /\ poolPc[t] = "idle"
    /\ IF connQue_ = <<>>
       THEN poolPc' = [poolPc EXCEPT ![t] = "busy"]
       ELSE poolPc' = [poolPc EXCEPT ![t] = "sem_wait"]
    /\ UNCHANGED <<connQue_, semId_, mtx_, poolSql, opened>>
    /\ UNCHANGED <<varsTimer, varsBuffer, varsServer, varsThreadPool, varsDeque>>

\* GetConn returned nullptr: the caller goes on without a handle.
GetConnBusyReturn(t) ==
    /\ poolPc[t] = "busy"
    /\ poolPc' = [poolPc EXCEPT ![t] = "idle"]
    /\ UNCHANGED <<connQue_, semId_, mtx_, poolSql, opened>>
    /\ UNCHANGED <<varsTimer, varsBuffer, varsServer, varsThreadPool, varsDeque>>

\* GetConn going on to the locked block without waiting on the semaphore.
GetConnSemWait_NoWait(t) ==
    /\ poolPc[t] = "sem_wait"
    /\ poolPc' = [poolPc EXCEPT ![t] = "pop"]
    /\ UNCHANGED <<connQue_, semId_, mtx_, poolSql, opened>>
    /\ UNCHANGED <<varsTimer, varsBuffer, varsServer, varsThreadPool, varsDeque>>

\* sem_wait(&semId_)
GetConnSemWait(t) ==
    /\ poolPc[t] = "sem_wait"
    /\ semId_ > 0
    /\ semId_' = semId_ - 1
    /\ poolPc' = [poolPc EXCEPT ![t] = "pop"]
    /\ UNCHANGED <<connQue_, mtx_, poolSql, opened>>
    /\ UNCHANGED <<varsTimer, varsBuffer, varsServer, varsThreadPool, varsDeque>>

\* lock_guard; front; pop; unlock; return sql.  A nullptr handle comes back
\* to a caller that has nothing to release (the scoped guard releases a
\* non-null handle only).
GetConnLockedPop(t) ==
    /\ poolPc[t] = "pop"
    /\ mtx_ = NoThread
    /\ connQue_ # <<>>
    /\ LET r == GetConnPop(connQue_)
       IN  /\ connQue_' = r.que
           /\ poolSql' = [poolSql EXCEPT ![t] = r.sql]
           /\ poolPc' = [poolPc EXCEPT ![t] = IF r.sql = NullSql THEN "idle" ELSE "hold"]
    /\ UNCHANGED <<semId_, mtx_, opened>>
    /\ UNCHANGED <<varsTimer, varsBuffer, varsServer, varsThreadPool, varsDeque>>

\* FreeConn: assert(sql); lock; connQue_.push(sql).
FreeConnPush(t) ==
    /\ poolPc[t] = "hold"
    /\ poolSql[t] # NullSql
    /\ mtx_ = NoThread
    /\ mtx_' = t
    /\ connQue_' = Append(connQue_, poolSql[t])
    /\ poolSql' = [poolSql EXCEPT ![t] = NullSql]
    /\ poolPc' = [poolPc EXCEPT ![t] = "post"]
    /\ UNCHANGED <<semId_, opened>>
    /\ UNCHANGED <<varsTimer, varsBuffer, varsServer, varsThreadPool, varsDeque>>

\* FreeConn: sem_post(&semId_); unlock.
FreeConnPost(t) ==
    /\ poolPc[t] = "post"
    /\ mtx_ = t
    /\ semId_' = semId_ + 1
    /\ mtx_' = NoThread
    /\ poolPc' = [poolPc EXCEPT ![t] = "idle"]
    /\ UNCHANGED <<connQue_, poolSql, opened>>
    /\ UNCHANGED <<varsTimer, varsBuffer, varsServer, varsThreadPool, varsDeque>>

NextPool ==
    \/ \E q \in PoolInitQueues : SqlConnPoolInit(q)
    \/ \E t \in PoolThreads : GetConnCheck(t)
    \/ \E t \in PoolThreads : GetConnBusyReturn(t)
    \/ \E t \in PoolThreads : GetConnSemWait(t)
    \/ \E t \in PoolThreads : GetConnLockedPop(t)
    \/ \E t \in PoolThreads : FreeConnPush(t)
    \/ \E t \in PoolThreads : FreeConnPost(t)

\* SqlConnPool::ClosePool: under the mutex every queued handle is closed and
\* popped; semId_ is not touched.
ClosePool ==
    /\ \A t \in PoolThreads : poolPc[t] # "start"
    /\ mtx_ = NoThread
    /\ connQue_' = <<>>
    /\ UNCHANGED <<semId_, mtx_, poolPc, poolSql, opened>>
    /\ UNCHANGED <<varsTimer, varsBuffer, varsServer, varsThreadPool, varsDeque>>

\* GetConn, the locked block on an empty queue: front() and pop() of an empty
\* std::queue are undefined; sql is whatever front() yields and the thread
\* goes on from an undefined state.
GetConnPopEmpty(t) ==
    /\ poolPc[t] = "pop"
    /\ mtx_ = NoThread
    /\ connQue_ = <<>>
    /\ \E sql \in Handles \cup {NullSql} : poolSql' = [poolSql EXCEPT ![t] = sql]
    /\ poolPc' = [poolPc EXCEPT ![t] = "undefined"]
    /\ UNCHANGED <<connQue_, semId_, mtx_, opened>>
    /\ UNCHANGED <<varsTimer, varsBuffer, varsServer, varsThreadPool, varsDeque>>

\* The pool with ClosePool among its operations.
NextPoolClose ==
    \/ NextPool
    \/ ClosePool
    \/ \E t \in PoolThreads : GetConnPopEmpty(t)

(***************************************************************************)
(* Buffer                                                                  *)
(***************************************************************************)
\* initBuffSize, the largest storage the model lets the buffer grow to, the
\* longest string of one Append / read / formatted message, and the size of
\* the staging area of ReadFd ("char buff[65535]", scaled down).
InitBuffSize == 2
MaxBufSize == 4
MaxStrLen == 2
StageSize == 1

Bytes == {1, 2}
\* What a resized vector and bzero fill with.
ZeroByte == 0
Strings == UNION {[1 .. n -> Bytes] : n \in 0 .. MaxStrLen}

Zeros(n) == [i \in 1 .. n |-> ZeroByte]
BufferOf(size) == [buffer_ |-> Zeros(size), readPos_ |-> 0, writePos_ |-> 0]

\* size_t results, as the code computes them.
ReadableBytes(b) == ToSizeT(b.writePos_ - b.readPos_)
WritableBytes(b) == ToSizeT(Len(b.buffer_) - b.writePos_)
PrependableBytes(b) == b.readPos_

\* The cursors are inside the storage: the accessors above are what they
\* mean, and Peek / BeginWrite point into the vector.
CursorsInRange(b) == 0 <= b.readPos_ /\ b.readPos_ <= b.writePos_ /\ b.writePos_ <= Len(b.buffer_)

\* [Peek(), Peek() + ReadableBytes())
ReadableSpan(b) == SubSeq(b.buffer_, b.readPos_ + 1, b.writePos_)

\* std::copy(src, src + len, BeginPtr_() + at)
CopyAt(store, at, src) ==
    [i \in 1 .. Len(store) |->
        IF i > at /\ i <= at + Len(src) THEN src[i - at] ELSE store[i]]

\* vector::resize: the old bytes are kept, new ones are zero.
Resize(store, n) ==
    [i \in 1 .. n |-> IF i <= Len(store) THEN store[i] ELSE ZeroByte]

Retrieve(b, len) == [b EXCEPT !.readPos_ = @ + len]

RetrieveAll(b) == [buffer_ |-> Zeros(Len(b.buffer_)), readPos_ |-> 0, writePos_ |-> 0]

HasWritten(b, len) == [b EXCEPT !.writePos_ = @ + len]

\* MakeSpace_ that also resizes when the free space is exactly len.
MakeSpace_Grows_Eager(b, len) == WritableBytes(b) + PrependableBytes(b) <= len

MakeSpace_Grows(b, len) == WritableBytes(b) + PrependableBytes(b) < len

MakeSpace_NoMove(b, len) ==
    IF MakeSpace_Grows(b, len)
    THEN [b EXCEPT !.buffer_ = Resize(@, b.writePos_ + len + 1)]
    ELSE [b EXCEPT !.readPos_ = 0, !.writePos_ = ReadableBytes(b)]

MakeSpace_(b, len) ==
    IF MakeSpace_Grows(b, len)
    THEN [b EXCEPT !.buffer_ = Resize(@, b.writePos_ + len + 1)]
    ELSE LET readable == ReadableBytes(b)
         IN  [b EXCEPT !.buffer_ = CopyAt(@, 0, ReadableSpan(b)),
                       !.readPos_ = 0,
                       !.writePos_ = 0 + readable]

EnsureWriteable(b, len) == IF WritableBytes(b) < len THEN MakeSpace_(b, len) ELSE b

\* Append(const char *str, size_t len)
BufAppend(b, str) ==
    LET b1 == EnsureWriteable(b, Len(str))
    IN  HasWritten([b1 EXCEPT !.buffer_ = CopyAt(@, b1.writePos_, str)], Len(str))

\* ReadFd that fills the tail and leaves the staged bytes behind.
ReadFd_DropsOverflow(b, data) ==
    LET writable == WritableBytes(b)
        len == IF Len(data) <= writable THEN Len(data) ELSE writable
    IN  [b EXCEPT !.buffer_ = CopyAt(@, b.writePos_, SubSeq(data, 1, len)),
                  !.writePos_ = @ + len]

\* ReadFd after readv returned len >= 0 with the bytes data (len = Len(data)):
\* the first "writable" bytes went to the tail, the rest to the stage.
ReadFd(b, data) ==
    LET writable == WritableBytes(b)
        len == Len(data)
    IN  IF len <= writable
        THEN [b EXCEPT !.buffer_ = CopyAt(@, b.writePos_, data),
                       !.writePos_ = @ + len]
        ELSE LET filled == [b EXCEPT !.buffer_ = CopyAt(@, b.writePos_, SubSeq(data, 1, writable)),
                                     !.writePos_ = Len(b.buffer_)]
             IN  BufAppend(filled, SubSeq(data, writable + 1, len))

\* WriteFd after write returned len >= 0.
WriteFd(b, len) == [b EXCEPT !.readPos_ = @ + len]

\* What MakeSpace_ does when an operation reserves len bytes.
SpaceTag(b, len) ==
    IF WritableBytes(b) >= len THEN "fits"
    ELSE IF MakeSpace_Grows(b, len) THEN "grow" ELSE "compact"

NoneRetrieved == [got |-> <<>>, want |-> <<>>]

InitBuffer ==
    /\ buff_ = BufferOf(InitBuffSize)
    /\ shadow = <<>>
    /\ bufOp = <<"new", "fits">>
    /\ retrieved = NoneRetrieved

\* The model stops the buffer from growing past MaxBufSize.
Fits(b, len) ==
    \/ WritableBytes(b) >= len
    \/ ~MakeSpace_Grows(b, len)
    \/ b.writePos_ + len + 1 <= MaxBufSize

DoAppend(str) ==
    /\ CursorsInRange(buff_)
    /\ Fits(buff_, Len(str))
    /\ buff_' = BufAppend(buff_, str)
    /\ shadow' = shadow \o str
    /\ bufOp' = <<"Append", SpaceTag(buff_, Len(str))>>
    /\ retrieved' = NoneRetrieved
    /\ UNCHANGED <<varsTimer, varsPool, varsServer, varsThreadPool, varsDeque>>

DoEnsureWriteable(len) ==
    /\ CursorsInRange(buff_)
    /\ Fits(buff_, len)
    /\ buff_' = EnsureWriteable(buff_, len)
    /\ bufOp' = <<"EnsureWriteable", SpaceTag(buff_, len)>>
    /\ retrieved' = NoneRetrieved
    /\ UNCHANGED shadow
    /\ UNCHANGED <<varsTimer, varsPool, varsServer, varsThreadPool, varsDeque>>

\* A caller wrote str at BeginWrite(), inside the writable tail, and
\* reports it with HasWritten.
DoHasWritten(str) ==
    /\ CursorsInRange(buff_)
    /\ Len(str) <= WritableBytes(buff_)
    /\ buff_' = HasWritten([buff_ EXCEPT !.buffer_ = CopyAt(@, buff_.writePos_, str)], Len(str))
    /\ shadow' = shadow \o str
    /\ bufOp' = <<"HasWritten", "fits">>
    /\ retrieved' = NoneRetrieved
    /\ UNCHANGED <<varsTimer, varsPool, varsServer, varsThreadPool, varsDeque>>

\* Retrieve(len), and RetrieveUntil(Peek() + len): assert(len <= ReadableBytes()).
DoRetrieve(len) ==
    /\ CursorsInRange(buff_)
    /\ len <= ReadableBytes(buff_)
    /\ buff_' = Retrieve(buff_, len)
    /\ shadow' = SubSeq(shadow, len + 1, Len(shadow))
    /\ bufOp' = <<"Retrieve", "fits">>
    /\ retrieved' = NoneRetrieved
    /\ UNCHANGED <<varsTimer, varsPool, varsServer, varsThreadPool, varsDeque>>

DoRetrieveAll ==
    /\ CursorsInRange(buff_)
    /\ buff_' = RetrieveAll(buff_)
    /\ shadow' = <<>>
    /\ bufOp' = <<"RetrieveAll", "fits">>
    /\ retrieved' = NoneRetrieved
    /\ UNCHANGED <<varsTimer, varsPool, varsServer, varsThreadPool, varsDeque>>

\* RetrieveAllToStr: str(Peek(), ReadableBytes()); RetrieveAll(); return str.
DoRetrieveAllToStr ==
    /\ CursorsInRange(buff_)
    /\ retrieved' = [got |-> ReadableSpan(buff_), want |-> shadow]
    /\ buff_' = RetrieveAll(buff_)
    /\ shadow' = <<>>
    /\ bufOp' = <<"RetrieveAllToStr", bufOp[2]>>
    /\ UNCHANGED <<varsTimer, varsPool, varsServer, varsThreadPool, varsDeque>>

\* ReadFd: readv fails (len < 0: nothing changes but *saveErrno), or yields
\* up to writable + sizeof(buff) bytes.
DoReadFd(data) ==
    /\ CursorsInRange(buff_)
    /\ Len(data) <= WritableBytes(buff_) + StageSize
    /\ Len(data) > WritableBytes(buff_) =>
          Fits([buff_ EXCEPT !.writePos_ = Len(buff_.buffer_)],
               Len(data) - WritableBytes(buff_))
    /\ buff_' = ReadFd(buff_, data)
    /\ shadow' = shadow \o data
    /\ bufOp' = <<"ReadFd",
                  IF Len(data) <= WritableBytes(buff_) THEN "fits"
                  ELSE IF WritableBytes(buff_) = 0 THEN "stage" ELSE "tail+stage">>
    /\ retrieved' = NoneRetrieved
    /\ UNCHANGED <<varsTimer, varsPool, varsServer, varsThreadPool, varsDeque>>

\* WriteFd: write fails (nothing changes), or takes len <= ReadableBytes().
DoWriteFd(len) ==
    /\ CursorsInRange(buff_)
    /\ len <= ReadableBytes(buff_)
    /\ buff_' = WriteFd(buff_, len)
    /\ shadow' = SubSeq(shadow, len + 1, Len(shadow))
    /\ bufOp' = <<"WriteFd", "fits">>
    /\ retrieved' = NoneRetrieved
    /\ UNCHANGED <<varsTimer, varsPool, varsServer, varsThreadPool, varsDeque>>

NextBuffer ==
    \/ \E str \in Strings : DoAppend(str)
    \/ \E len \in 0 .. MaxStrLen : DoEnsureWriteable(len)
    \/ \E str \in Strings : DoHasWritten(str)
    \/ \E len \in 0 .. MaxStrLen : DoRetrieve(len)
    \/ DoRetrieveAll
    \/ DoRetrieveAllToStr
    \/ \E n \in 0 .. MaxStrLen + StageSize : \E data \in [1 .. n -> Bytes] : DoReadFd(data)
    \/ \E len \in 0 .. MaxStrLen : DoWriteFd(len)

\* Log::write, "int m = vsnprintf(buff_.BeginWrite(), buff_.WritableBytes(),
\* format, vaList); buff_.HasWritten(m)": the formatter stores what fits in
\* the writable tail (a terminating zero included) and returns the length of
\* the whole message.
Formatted(b, msg) ==
    LET writable == WritableBytes(b)
        stored == IF writable = 0 THEN <<>>
                  ELSE IF Len(msg) < writable THEN Append(msg, ZeroByte)
                  ELSE Append(SubSeq(msg, 1, writable - 1), ZeroByte)
    IN  [b |-> [b EXCEPT !.buffer_ = CopyAt(@, b.writePos_, stored)], m |-> Len(msg)]

LogWriteFormat(msg) ==
    /\ CursorsInRange(buff_)
    /\ LET r == Formatted(buff_, msg)
       IN  buff_' = HasWritten(r.b, r.m)
    /\ shadow' = shadow \o msg
    /\ bufOp' = <<"LogWriteFormat", "fits">>
    /\ retrieved' = NoneRetrieved
    /\ UNCHANGED <<varsTimer, varsPool, varsServer, varsThreadPool, varsDeque>>

NextLogBuffer ==
    \/ NextBuffer
    \/ \E msg \in Strings : LogWriteFormat(msg)

(***************************************************************************)
(* WebServer: the reactor loop (Start), the worker tasks (OnRead_,         *)
(* OnWrite_), the connections and the epoll registrations.                 *)
(***************************************************************************)
\* MAX_FD (65536 in the program), scaled down.
MAX_FD == 1
\* The descriptor numbers accept can return; accept returns the lowest free.
NumFds == 2
\* The clients that ever connect.
MaxClients == 2
\* The bytes of a response.
MaxWrite == 2
\* The threads of the ThreadPool.
NumWorkers == 2
\* The positive timeoutMS the server may be constructed with.
TimeoutMs == 1
\* The server's clock stops advancing here.
MaxClock == 4

Fds == 1 .. NumFds
Workers == 1 .. NumWorkers
\* trigMode 0 to 3, and 4 for any other value.
TrigModes == 0 .. 4

NoReg == [ev |-> {}, armed |-> FALSE]

\* InitEventMode_ without EPOLLONESHOT for the values other than 0 to 3.
InitEventMode_NoOneShot(mode) ==
    IF mode \in 0 .. 3
    THEN [listenEvent_ |-> {"EPOLLRDHUP"} \cup (IF mode >= 2 THEN {"EPOLLET"} ELSE {}),
          connEvent_ |-> {"EPOLLONESHOT", "EPOLLRDHUP"}
                            \cup (IF mode \in {1, 3} THEN {"EPOLLET"} ELSE {})]
    ELSE [listenEvent_ |-> {"EPOLLRDHUP", "EPOLLET"},
          connEvent_ |-> {"EPOLLRDHUP", "EPOLLET"}]

\* WebServer::InitEventMode_
InitEventMode_(mode) ==
    LET listenBase == {"EPOLLRDHUP"}
        connBase == {"EPOLLONESHOT", "EPOLLRDHUP"}
    IN  CASE mode = 0 -> [listenEvent_ |-> listenBase, connEvent_ |-> connBase]
          [] mode = 1 -> [listenEvent_ |-> listenBase,
                          connEvent_ |-> connBase \cup {"EPOLLET"}]
          [] mode = 2 -> [listenEvent_ |-> listenBase \cup {"EPOLLET"},
                          connEvent_ |-> connBase]
          [] mode = 3 -> [listenEvent_ |-> listenBase \cup {"EPOLLET"},
                          connEvent_ |-> connBase \cup {"EPOLLET"}]
          [] OTHER -> [listenEvent_ |-> listenBase \cup {"EPOLLET"},
                       connEvent_ |-> connBase \cup {"EPOLLET"}]

\* HttpConn::isET
isET == "EPOLLET" \in connEvent_

\* Epoller::AddFd, ModFd, DelFd: epoll_ctl fails on a descriptor that is not
\* open, ADD on one that is registered and MOD on one that is not.
AddFd(ep, open, fd, events) ==
    IF fd \in open /\ ep[fd] = NoReg
    THEN [ep EXCEPT ![fd] = [ev |-> events, armed |-> TRUE]]
    ELSE ep
ModFd(ep, open, fd, events) ==
    IF fd \in open /\ ep[fd] # NoReg
    THEN [ep EXCEPT ![fd] = [ev |-> events, armed |-> TRUE]]
    ELSE ep
DelFd(ep, fd) == [ep EXCEPT ![fd] = NoReg]

\* The connection state the handlers change together.
ConnState == [users |-> users_, userCount |-> userCount, openFds |-> openFds,
              epoll |-> epoll]
SetConnState(S) ==
    /\ users_' = S.users
    /\ userCount' = S.userCount
    /\ openFds' = S.openFds
    /\ epoll' = S.epoll

\* A default-constructed HttpConn, and one after init.
ClosedConn == [isClose |-> TRUE, toWrite |-> 0, keepAlive |-> FALSE, inBuf |-> FALSE]
FreshConn == [isClose |-> FALSE, toWrite |-> 0, keepAlive |-> FALSE, inBuf |-> FALSE]

\* HttpConn::init: a live connection on fd, counted in userCount.
HttpConnInit(S, fd) ==
    [S EXCEPT !.users[fd] = FreshConn, !.userCount = @ + 1]

\* HttpConn::Close: once per connection; it closes the socket, which also
\* drops the descriptor from the epoll set.
HttpConnClose(S, fd) ==
    IF S.users[fd].isClose
    THEN S
    ELSE [S EXCEPT !.users[fd].isClose = TRUE,
                   !.userCount = @ - 1,
                   !.openFds = @ \ {fd},
                   !.epoll[fd] = NoReg]

\* HttpConn::read: the results [io, ret, errno, inBuf] a read can have.  A
\* level-triggered read is one attempt; an edge-triggered read repeats until
\* an attempt returns nothing.
HttpConnRead(c, et, isOpen) ==
    IF ~isOpen
    THEN {[io |-> "error", ret |-> -1, errno |-> "EOTHER", inBuf |-> c.inBuf]}
    ELSE {[io |-> "eof", ret |-> 0, errno |-> "0", inBuf |-> c.inBuf],
          [io |-> "error", ret |-> -1, errno |-> "EOTHER", inBuf |-> c.inBuf],
          [io |-> "again", ret |-> -1, errno |-> "EAGAIN", inBuf |-> c.inBuf]}
         \cup (IF et
               THEN {[io |-> "data", ret |-> -1, errno |-> "EAGAIN", inBuf |-> TRUE]}
               ELSE {[io |-> "data", ret |-> 1, errno |-> "0", inBuf |-> TRUE]})

\* HttpConn::write: the results [io, ret, errno, left], left what
\* ToWriteBytes returns afterwards.  A level-triggered write is one attempt,
\* which may write a part; an edge-triggered write repeats until the
\* response is complete or an attempt fails.
HttpConnWrite(c, et, isOpen) ==
    IF ~isOpen
    THEN {[io |-> "error", ret |-> -1, errno |-> "EOTHER", left |-> c.toWrite]}
    ELSE IF c.toWrite = 0
    THEN {[io |-> "done", ret |-> 0, errno |-> "0", left |-> 0]}
    ELSE {[io |-> "error", ret |-> -1, errno |-> "EOTHER", left |-> c.toWrite],
          [io |-> "done", ret |-> c.toWrite, errno |-> "0", left |-> 0]}
         \cup (IF et
               THEN {[io |-> "again", ret |-> -1, errno |-> "EAGAIN", left |-> l] :
                         l \in 1 .. c.toWrite}
               ELSE {[io |-> "again", ret |-> -1, errno |-> "EAGAIN", left |-> c.toWrite]}
                    \cup {[io |-> "part", ret |-> k, errno |-> "0", left |-> c.toWrite - k] :
                              k \in 1 .. c.toWrite - 1})

\* HttpConn::process: [ready, conn].  Without buffered input there is no
\* request; with it the request is incomplete, or a response of MaxWrite
\* bytes is ready, the request deciding keep-alive, with or without a
\* further request behind it in the buffer.
HttpConnProcess(c) ==
    {[ready |-> FALSE, conn |-> c]}
    \cup (IF c.inBuf
          THEN {[ready |-> TRUE,
                 conn |-> [c EXCEPT !.toWrite = MaxWrite, !.keepAlive = ka,
                                    !.inBuf = more]] : ka \in BOOLEAN, more \in BOOLEAN}
          ELSE {})

\* WebServer::CloseConn_
CloseConn_(S, fd) == HttpConnClose([S EXCEPT !.epoll = DelFd(@, fd)], fd)

\* The callbacks tick ran, each CloseConn_ on the connection it was bound to.
RECURSIVE RunCallbacks(_, _)
RunCallbacks(S, fired) ==
    IF fired = <<>>
    THEN S
    ELSE RunCallbacks(CloseConn_(S, Head(fired).cb), Tail(fired))

\* DealListen_ turning a client away only above MAX_FD.
ClientsFull_Above(count) == count > MAX_FD

\* The test of DealListen_ that turns a client away.
ClientsFull(count) == count >= MAX_FD

\* OnRead_: whether the result of read closes the connection.
OnReadCloses(ret, errno) == ret <= 0 /\ errno # "EAGAIN"

\* OnProcess: the event the connection is armed for next.
OnProcess(ready) == IF ready THEN "EPOLLOUT" ELSE "EPOLLIN"

\* OnWrite_ closing after every complete response.
OnWriteNext_NoKeepAlive(ret, errno, left, ka) ==
    IF left # 0 /\ ret < 0 /\ errno = "EAGAIN" THEN "EPOLLOUT" ELSE "close"

\* OnWrite_: what follows write, "process" for OnProcess.
OnWriteNext(ret, errno, left, ka) ==
    IF left = 0
    THEN IF ka THEN "process" ELSE "close"
    ELSE IF ret < 0
    THEN IF errno = "EAGAIN" THEN "EPOLLOUT" ELSE "close"
    ELSE "close"

\* The lowest descriptor number that is free, 0 when there is none.
LowestFree(open) ==
    IF Fds \ open = {} THEN 0
    ELSE CHOOSE fd \in Fds \ open : \A g \in Fds \ open : fd <= g

IdleWorker == [pc |-> "idle", fd |-> 0, op |-> "none", io |-> "none", next |-> "none"]

\* The bounds InitSocket_ puts on the port, and the ports tried.
MinPort == 1024
MaxPort == 65535
Ports == {MinPort - 1, MinPort, MaxPort + 1}
\* listenFd_ with no listen socket open, and the fd socket() returns.
NoListen == -1
ListenFd == 0

InitServer ==
    /\ port_ = 0
    /\ listenFd_ = NoListen
    /\ listenEvent_ = {}
    /\ connEvent_ = {}
    /\ timeoutMS_ = 0
    /\ users_ = [fd \in Fds |-> ClosedConn]
    /\ userCount = 0
    /\ openFds = {}
    /\ epoll = [fd \in Fds |-> NoReg]
    /\ backlog = 0
    /\ listenEdge = FALSE
    /\ tasks = <<>>
    /\ wk = [w \in Workers |-> IdleWorker]
    /\ rpc = "ctor"
    /\ timeMS = -1
    /\ accepts = 0
    /\ busySent = 0

\* The server runs: it is constructed, not closed, and the timer heap is
\* intact.
Running == rpc \notin {"ctor", "closed"} /\ ~timer_.corrupt

\* InitSocket_ without the test of the port.
InitSocket_AnyPort(port, sysOk) == sysOk

\* InitSocket_: false for a port outside [MinPort, MaxPort], before any
\* socket is made; else whether socket, setsockopt, bind, listen and AddFd all
\* succeeded (sysOk).
InitSocket_(port, sysOk) ==
    IF port > MaxPort \/ port < MinPort THEN FALSE ELSE sysOk

\* WebServer::WebServer.  When InitSocket_ fails isClose_ is set, and Start,
\* whose loop runs while !isClose_, returns at once: rpc = "closed".
WebServerInit(mode, timeout, port, sysOk) ==
    /\ rpc = "ctor"
    /\ port_' = port
    /\ listenEvent_' = InitEventMode_(mode).listenEvent_
    /\ connEvent_' = InitEventMode_(mode).connEvent_
    /\ timeoutMS_' = timeout
    /\ IF InitSocket_(port, sysOk)
       THEN listenFd_' = ListenFd /\ rpc' = "top"
       ELSE listenFd_' = NoListen /\ rpc' = "closed"
    /\ UNCHANGED <<users_, userCount, openFds, epoll, backlog, listenEdge, tasks, wk,
                   timeMS, accepts, busySent>>
    /\ UNCHANGED <<varsTimer, varsPool, varsBuffer, varsThreadPool, varsDeque>>

\* The clock of the running server.
ClockAdvance ==
    /\ Running
    /\ timeoutMS_ > 0
    /\ now < MaxClock
    /\ now' = now + 1
    /\ UNCHANGED <<timer_, lastFired>>
    /\ UNCHANGED <<varsServer, varsPool, varsBuffer, varsThreadPool, varsDeque>>

\* A client connects: it waits in the listen queue.
ClientArrives(limit) ==
    /\ Running
    /\ accepts + backlog < limit
    /\ backlog' = backlog + 1
    /\ listenEdge' = TRUE
    /\ UNCHANGED <<port_, listenFd_, listenEvent_, connEvent_, timeoutMS_, users_, userCount, openFds, epoll, tasks, wk,
                   rpc, timeMS, accepts, busySent>>
    /\ UNCHANGED <<varsTimer, varsPool, varsBuffer, varsThreadPool, varsDeque>>

\* Start, top of the loop with timeoutMS_ > 0: the tick() of GetNextTick,
\* whose callbacks close the expired connections.
StartTick ==
    /\ Running
    /\ rpc = "top"
    /\ timeoutMS_ > 0
    /\ \E oobLess \in BOOLEAN :
          LET r == tick(timer_, now, oobLess)
          IN  /\ timer_' = r.t
              /\ SetConnState(RunCallbacks(ConnState, r.fired))
    /\ rpc' = "nexttick"
    /\ UNCHANGED <<port_, listenFd_, listenEvent_, connEvent_, timeoutMS_, backlog, listenEdge, tasks, wk, timeMS,
                   accepts, busySent>>
    /\ UNCHANGED <<now, lastFired, varsPool, varsBuffer, varsThreadPool, varsDeque>>

\* Start: the rest of GetNextTick, with its own reading of the clock.
StartGetNextTick ==
    /\ Running
    /\ rpc = "nexttick"
    /\ timeMS' = NextTickValue(timer_, now)
    /\ rpc' = "wait"
    /\ UNCHANGED <<port_, listenFd_, listenEvent_, connEvent_, timeoutMS_, users_, userCount, openFds, epoll, backlog,
                   listenEdge, tasks, wk, accepts, busySent>>
    /\ UNCHANGED <<varsTimer, varsPool, varsBuffer, varsThreadPool, varsDeque>>

\* Start, top of the loop with timeoutMS_ <= 0: timeMS stays -1.
StartNoTimeout ==
    /\ Running
    /\ rpc = "top"
    /\ ~(timeoutMS_ > 0)
    /\ rpc' = "wait"
    /\ UNCHANGED <<port_, listenFd_, listenEvent_, connEvent_, timeoutMS_, users_, userCount, openFds, epoll, backlog,
                   listenEdge, tasks, wk, timeMS, accepts, busySent>>
    /\ UNCHANGED <<varsTimer, varsPool, varsBuffer, varsThreadPool, varsDeque>>

\* Epoller::Wait returns without an event: a wait with a timeout (timeMS >= 0)
\* ends; a wait with timeMS < 0 does not.  The length of the wait is not
\* measured: it may end at any clock reading, and the tick that follows
\* decides by the clock what has expired.
WaitNoEvent ==
    /\ Running
    /\ rpc = "wait"
    /\ timeMS >= 0
    /\ rpc' = "top"
    /\ UNCHANGED <<port_, listenFd_, listenEvent_, connEvent_, timeoutMS_, users_, userCount, openFds, epoll, backlog,
                   listenEdge, tasks, wk, timeMS, accepts, busySent>>
    /\ UNCHANGED <<varsTimer, varsPool, varsBuffer, varsThreadPool, varsDeque>>

\* The listen socket reports: level-triggered while clients wait,
\* edge-triggered when one arrived since the last report.
ListenReady ==
    IF "EPOLLET" \in listenEvent_ THEN listenEdge ELSE backlog > 0

\* Start: the event of the listen socket; DealListen_ begins.
WaitListen ==
    /\ Running
    /\ rpc = "wait"
    /\ ListenReady
    /\ listenEdge' = FALSE
    /\ rpc' = "listen"
    /\ UNCHANGED <<port_, listenFd_, listenEvent_, connEvent_, timeoutMS_, users_, userCount, openFds, epoll, backlog,
                   tasks, wk, timeMS, accepts, busySent>>
    /\ UNCHANGED <<varsTimer, varsPool, varsBuffer, varsThreadPool, varsDeque>>

\* DealListen_: accept returns no client (fd <= 0).
DealListenNone ==
    /\ Running
    /\ rpc = "listen"
    /\ backlog = 0 \/ LowestFree(openFds) = 0
    /\ rpc' = "top"
    /\ UNCHANGED <<port_, listenFd_, listenEvent_, connEvent_, timeoutMS_, users_, userCount, openFds, epoll, backlog,
                   listenEdge, tasks, wk, timeMS, accepts, busySent>>
    /\ UNCHANGED <<varsTimer, varsPool, varsBuffer, varsThreadPool, varsDeque>>

\* WebServer::SendError_: the reply is sent and the socket closed; the open
\* descriptors are as before the accept.
SendError_(fd) ==
    /\ busySent' = busySent + 1
    /\ UNCHANGED <<users_, userCount, openFds, epoll, timer_>>

\* AddClient_ without the init of users_[fd].
AddClient_NoInit(fd) ==
    /\ LET S0 == [ConnState EXCEPT !.openFds = @ \cup {fd}]
           S2 == [S0 EXCEPT !.epoll = AddFd(@, S0.openFds, fd, {"EPOLLIN"} \cup connEvent_)]
       IN  SetConnState(S2)
    /\ IF timeoutMS_ > 0
       THEN \E oobLess \in BOOLEAN :
               timer_' = add(timer_, fd, timeoutMS_, fd, now, oobLess)
       ELSE UNCHANGED timer_
    /\ UNCHANGED busySent

\* WebServer::AddClient_
AddClient_(fd) ==
    /\ LET S0 == [ConnState EXCEPT !.openFds = @ \cup {fd}]
           S1 == HttpConnInit(S0, fd)
           S2 == [S1 EXCEPT !.epoll = AddFd(@, S1.openFds, fd, {"EPOLLIN"} \cup connEvent_)]
       IN  SetConnState(S2)
    /\ IF timeoutMS_ > 0
       THEN \E oobLess \in BOOLEAN :
               timer_' = add(timer_, fd, timeoutMS_, fd, now, oobLess)
       ELSE UNCHANGED timer_
    /\ UNCHANGED busySent

\* DealListen_: accept returns a client; it is turned away or installed.
DealListenAccept ==
    /\ Running
    /\ rpc = "listen"
    /\ backlog > 0
    /\ LowestFree(openFds) # 0
    /\ LET fd == LowestFree(openFds)
       IN  IF ClientsFull(userCount)
           THEN SendError_(fd) /\ rpc' = "top"
           ELSE AddClient_(fd)
                /\ rpc' = IF "EPOLLET" \in listenEvent_ THEN "listen" ELSE "top"
    /\ backlog' = backlog - 1
    /\ accepts' = accepts + 1
    /\ UNCHANGED <<port_, listenFd_, listenEvent_, connEvent_, timeoutMS_, listenEdge, tasks, wk, timeMS>>
    /\ UNCHANGED <<now, lastFired, varsPool, varsBuffer, varsThreadPool, varsDeque>>

\* A registered descriptor reports an event when it is armed; EPOLLONESHOT
\* disarms it.
Reports(fd, event) ==
    /\ epoll[fd].armed
    /\ event \in epoll[fd].ev \cup {"EPOLLHUP", "EPOLLERR"}
Disarm(ep, fd) ==
    IF "EPOLLONESHOT" \in ep[fd].ev THEN [ep EXCEPT ![fd].armed = FALSE] ELSE ep

\* Start: EPOLLRDHUP, EPOLLHUP or EPOLLERR on a client: CloseConn_.
WaitHup(fd) ==
    /\ Running
    /\ rpc = "wait"
    /\ \E event \in {"EPOLLRDHUP", "EPOLLHUP", "EPOLLERR"} : Reports(fd, event)
    /\ SetConnState(CloseConn_([ConnState EXCEPT !.epoll = Disarm(@, fd)], fd))
    /\ rpc' = "top"
    /\ UNCHANGED <<port_, listenFd_, listenEvent_, connEvent_, timeoutMS_, backlog, listenEdge, tasks, wk, timeMS,
                   accepts, busySent>>
    /\ UNCHANGED <<varsTimer, varsPool, varsBuffer, varsThreadPool, varsDeque>>

\* WebServer::ExtentTime_; the assert of HeapTimer::adjust is the guard.
ExtentTime_(fd) ==
    IF timeoutMS_ > 0
    THEN /\ timer_.heap_ # <<>>
         /\ fd \in DOMAIN timer_.ref_
         /\ timer_' = adjust(timer_, fd, timeoutMS_, now)
    ELSE UNCHANGED timer_

\* Start: EPOLLIN on a client: DealRead_ queues OnRead_.
DealRead_(fd) ==
    /\ Running
    /\ rpc = "wait"
    /\ Reports(fd, "EPOLLIN")
    /\ ExtentTime_(fd)
    /\ tasks' = Append(tasks, [op |-> "read", fd |-> fd])
    /\ epoll' = Disarm(epoll, fd)
    /\ rpc' = "top"
    /\ UNCHANGED <<port_, listenFd_, listenEvent_, connEvent_, timeoutMS_, users_, userCount, openFds, backlog,
                   listenEdge, wk, timeMS, accepts, busySent>>
    /\ UNCHANGED <<now, lastFired, varsPool, varsBuffer, varsThreadPool, varsDeque>>

\* Start: EPOLLOUT on a client: DealWrite_ queues OnWrite_.
DealWrite_(fd) ==
    /\ Running
    /\ rpc = "wait"
    /\ Reports(fd, "EPOLLOUT")
    /\ ExtentTime_(fd)
    /\ tasks' = Append(tasks, [op |-> "write", fd |-> fd])
    /\ epoll' = Disarm(epoll, fd)
    /\ rpc' = "top"
    /\ UNCHANGED <<port_, listenFd_, listenEvent_, connEvent_, timeoutMS_, users_, userCount, openFds, backlog,
                   listenEdge, wk, timeMS, accepts, busySent>>
    /\ UNCHANGED <<now, lastFired, varsPool, varsBuffer, varsThreadPool, varsDeque>>

\* A worker's record of the task it runs: the connection, the task, how its
\* read or write ended and the call still to make.
TaskRecord(fd, op, io, next) ==
    [pc |-> "finish", fd |-> fd, op |-> op, io |-> io, next |-> next]

\* A worker takes OnRead_ from the queue and runs it up to its last call,
\* CloseConn_ or the ModFd of OnProcess.
OnRead_(w) ==
    /\ Running
    /\ wk[w].pc = "idle"
    /\ tasks # <<>>
    /\ Head(tasks).op = "read"
    /\ LET fd == Head(tasks).fd
           c == users_[fd]
       IN  \E r \in HttpConnRead(c, isET, fd \in openFds) :
              LET c1 == [c EXCEPT !.inBuf = r.inBuf]
              IN  IF OnReadCloses(r.ret, r.errno)
                  THEN /\ users_' = [users_ EXCEPT ![fd] = c1]
                       /\ wk' = [wk EXCEPT ![w] = TaskRecord(fd, "read", r.io, "close")]
                  ELSE \E p \in HttpConnProcess(c1) :
                          /\ users_' = [users_ EXCEPT ![fd] = p.conn]
                          /\ wk' = [wk EXCEPT ![w] =
                                       TaskRecord(fd, "read", r.io, OnProcess(p.ready))]
    /\ tasks' = Tail(tasks)
    /\ UNCHANGED <<port_, listenFd_, listenEvent_, connEvent_, timeoutMS_, userCount, openFds, epoll, backlog, listenEdge,
                   rpc, timeMS, accepts, busySent>>
    /\ UNCHANGED <<varsTimer, varsPool, varsBuffer, varsThreadPool, varsDeque>>

\* A worker takes OnWrite_ from the queue and runs it up to its last call.
OnWrite_(w) ==
    /\ Running
    /\ wk[w].pc = "idle"
    /\ tasks # <<>>
    /\ Head(tasks).op = "write"
    /\ LET fd == Head(tasks).fd
           c == users_[fd]
       IN  \E r \in HttpConnWrite(c, isET, fd \in openFds) :
              LET c1 == [c EXCEPT !.toWrite = r.left]
                  next == OnWriteNext(r.ret, r.errno, r.left, c1.keepAlive)
              IN  IF next = "process"
                  THEN \E p \in HttpConnProcess(c1) :
                          /\ users_' = [users_ EXCEPT ![fd] = p.conn]
                          /\ wk' = [wk EXCEPT ![w] =
                                       TaskRecord(fd, "write", r.io, OnProcess(p.ready))]
                  ELSE /\ users_' = [users_ EXCEPT ![fd] = c1]
                       /\ wk' = [wk EXCEPT ![w] = TaskRecord(fd, "write", r.io, next)]
    /\ tasks' = Tail(tasks)
    /\ UNCHANGED <<port_, listenFd_, listenEvent_, connEvent_, timeoutMS_, userCount, openFds, epoll, backlog, listenEdge,
                   rpc, timeMS, accepts, busySent>>
    /\ UNCHANGED <<varsTimer, varsPool, varsBuffer, varsThreadPool, varsDeque>>

\* The last call of a task: CloseConn_, or ModFd with the event to wait for.
TaskFinish(w) ==
    /\ Running
    /\ wk[w].pc = "finish"
    /\ LET fd == wk[w].fd
       IN  IF wk[w].next = "close"
           THEN SetConnState(CloseConn_(ConnState, fd))
           ELSE /\ epoll' = ModFd(epoll, openFds, fd, connEvent_ \cup {wk[w].next})
                /\ UNCHANGED <<users_, userCount, openFds>>
    /\ wk' = [wk EXCEPT ![w] = IdleWorker]
    /\ UNCHANGED <<port_, listenFd_, listenEvent_, connEvent_, timeoutMS_, backlog, listenEdge, tasks, rpc, timeMS,
                   accepts, busySent>>
    /\ UNCHANGED <<varsTimer, varsPool, varsBuffer, varsThreadPool, varsDeque>>

Next ==
    \/ \E mode \in TrigModes, timeout \in {0, TimeoutMs}, port \in Ports, sysOk \in BOOLEAN :
          WebServerInit(mode, timeout, port, sysOk)
    \/ ClockAdvance
    \/ ClientArrives(MaxClients)
    \/ StartTick
    \/ StartGetNextTick
    \/ StartNoTimeout
    \/ WaitNoEvent
    \/ WaitListen
    \/ DealListenNone
    \/ DealListenAccept
    \/ \E fd \in Fds : WaitHup(fd)
    \/ \E fd \in Fds : DealRead_(fd)
    \/ \E fd \in Fds : DealWrite_(fd)
    \/ \E w \in Workers : OnRead_(w)
    \/ \E w \in Workers : OnWrite_(w)
    \/ \E w \in Workers : TaskFinish(w)

\* The server whose clients connect and hang up without sending a request:
\* the reactor thread alone, with up to MaxIdleClients clients.
MaxIdleClients == 3

NextListen ==
    \/ \E mode \in TrigModes, timeout \in {0, TimeoutMs}, port \in Ports, sysOk \in BOOLEAN :
          WebServerInit(mode, timeout, port, sysOk)
    \/ ClockAdvance
    \/ ClientArrives(MaxIdleClients)
    \/ StartTick
    \/ StartGetNextTick
    \/ StartNoTimeout
    \/ WaitNoEvent
    \/ WaitListen
    \/ DealListenNone
    \/ DealListenAccept
    \/ \E fd \in Fds : WaitHup(fd)

(***************************************************************************)
(* ThreadPool: the worker loop, AddTask and the destructor.                *)
(***************************************************************************)
\* threadCount and the number of tasks the owner passes to AddTask.
ThreadCount == 2
MaxTasks == 2

PoolWorkers == 1 .. ThreadCount
TaskIds == 1 .. MaxTasks
\* poolMtx when no thread holds pool->mtx.
NoOwner == -1
NoTask == 0

\* make_shared<Pool>(): no task, isClosed false; the workers start by
\* locking pool->mtx.
InitThreadPool ==
    /\ poolMtx = NoOwner
    /\ poolTasks = <<>>
    /\ isClosed = FALSE
    /\ condWait = {}
    /\ workerPc = [w \in PoolWorkers |-> "lock"]
    /\ workerTask = [w \in PoolWorkers |-> NoTask]
    /\ ownerPc = "alive"
    /\ added = {}
    /\ ran = [k \in TaskIds |-> 0]

\* The worker loop with the queue empty at every closed check.
WorkerBranch_ClosedFirst(queue, closed) ==
    IF closed THEN "exit" ELSE IF queue # <<>> THEN "take" ELSE "wait"

\* The branch the worker loop takes under the lock.
WorkerBranch(queue, closed) ==
    IF queue # <<>> THEN "take" ELSE IF closed THEN "exit" ELSE "wait"

\* The worker loop taking front() without pop().
TakeTask_NoPop(queue) == [task |-> Head(queue), rest |-> queue]

\* task = std::move(tasks.front()); tasks.pop()
TakeTask(queue) == [task |-> Head(queue), rest |-> Tail(queue)]

\* unique_lock's constructor, locker.lock() after a task, and the lock that
\* cond.wait takes again once the thread is woken.
WorkerLock(w) ==
    /\ workerPc[w] = "lock"
    /\ poolMtx = NoOwner
    /\ poolMtx' = w
    /\ workerPc' = [workerPc EXCEPT ![w] = "check"]
    /\ UNCHANGED <<poolTasks, isClosed, condWait, workerTask, ownerPc, added, ran>>
    /\ UNCHANGED <<varsTimer, varsPool, varsBuffer, varsServer, varsDeque>>

\* The loop body up to the unlock before task().
WorkerTake(w) ==
    /\ workerPc[w] = "check"
    /\ poolMtx = w
    /\ WorkerBranch(poolTasks, isClosed) = "take"
    /\ LET r == TakeTask(poolTasks)
       IN  /\ poolTasks' = r.rest
           /\ workerTask' = [workerTask EXCEPT ![w] = r.task]
    /\ poolMtx' = NoOwner
    /\ workerPc' = [workerPc EXCEPT ![w] = "run"]
    /\ UNCHANGED <<isClosed, condWait, ownerPc, added, ran>>
    /\ UNCHANGED <<varsTimer, varsPool, varsBuffer, varsServer, varsDeque>>

\* task()
WorkerRun(w) ==
    /\ workerPc[w] = "run"
    /\ ran' = [ran EXCEPT ![workerTask[w]] = @ + 1]
    /\ workerTask' = [workerTask EXCEPT ![w] = NoTask]
    /\ workerPc' = [workerPc EXCEPT ![w] = "lock"]
    /\ UNCHANGED <<poolMtx, poolTasks, isClosed, condWait, ownerPc, added>>
    /\ UNCHANGED <<varsTimer, varsPool, varsBuffer, varsServer, varsDeque>>

\* break: the thread leaves the loop and its unique_lock unlocks.
WorkerExit(w) ==
    /\ workerPc[w] = "check"
    /\ poolMtx = w
    /\ WorkerBranch(poolTasks, isClosed) = "exit"
    /\ poolMtx' = NoOwner
    /\ workerPc' = [workerPc EXCEPT ![w] = "exited"]
    /\ UNCHANGED <<poolTasks, isClosed, condWait, workerTask, ownerPc, added, ran>>
    /\ UNCHANGED <<varsTimer, varsPool, varsBuffer, varsServer, varsDeque>>

\* cond.wait(locker): the mutex is released and the thread blocks, in one step.
WorkerWait(w) ==
    /\ workerPc[w] = "check"
    /\ poolMtx = w
    /\ WorkerBranch(poolTasks, isClosed) = "wait"
    /\ poolMtx' = NoOwner
    /\ condWait' = condWait \cup {w}
    /\ workerPc' = [workerPc EXCEPT ![w] = "wait"]
    /\ UNCHANGED <<poolTasks, isClosed, workerTask, ownerPc, added, ran>>
    /\ UNCHANGED <<varsTimer, varsPool, varsBuffer, varsServer, varsDeque>>

\* A thread that was notified, or woke spuriously, goes to lock the mutex.
WorkerWake(w) ==
    /\ workerPc[w] = "wait"
    /\ w \notin condWait
    /\ workerPc' = [workerPc EXCEPT ![w] = "lock"]
    /\ UNCHANGED <<poolMtx, poolTasks, isClosed, condWait, workerTask, ownerPc, added, ran>>
    /\ UNCHANGED <<varsTimer, varsPool, varsBuffer, varsServer, varsDeque>>

\* condition_variable::wait may return without a notification.
SpuriousWake(w) ==
    /\ w \in condWait
    /\ condWait' = condWait \ {w}
    /\ UNCHANGED <<poolMtx, poolTasks, isClosed, workerPc, workerTask, ownerPc, added, ran>>
    /\ UNCHANGED <<varsTimer, varsPool, varsBuffer, varsServer, varsDeque>>

\* AddTask: lock_guard; tasks.emplace(task); unlock.
AddTaskPush(k) ==
    /\ ownerPc = "alive"
    /\ k \notin added
    /\ poolMtx = NoOwner
    /\ poolTasks' = Append(poolTasks, k)
    /\ added' = added \cup {k}
    /\ ownerPc' = "notify_one"
    /\ UNCHANGED <<poolMtx, isClosed, condWait, workerPc, workerTask, ran>>
    /\ UNCHANGED <<varsTimer, varsPool, varsBuffer, varsServer, varsDeque>>

\* AddTask: cond.notify_one() wakes one blocked thread, if there is one.
AddTaskNotify ==
    /\ ownerPc = "notify_one"
    /\ IF condWait = {}
       THEN UNCHANGED condWait
       ELSE \E w \in condWait : condWait' = condWait \ {w}
    /\ ownerPc' = "alive"
    /\ UNCHANGED <<poolMtx, poolTasks, isClosed, workerPc, workerTask, added, ran>>
    /\ UNCHANGED <<varsTimer, varsPool, varsBuffer, varsServer, varsDeque>>

\* ~ThreadPool: lock_guard; isClosed = true; unlock.
DtorClose ==
    /\ ownerPc = "alive"
    /\ poolMtx = NoOwner
    /\ isClosed' = TRUE
    /\ ownerPc' = "notify_all"
    /\ UNCHANGED <<poolMtx, poolTasks, condWait, workerPc, workerTask, added, ran>>
    /\ UNCHANGED <<varsTimer, varsPool, varsBuffer, varsServer, varsDeque>>

\* ~ThreadPool: cond.notify_all()
DtorNotifyAll ==
    /\ ownerPc = "notify_all"
    /\ condWait' = {}
    /\ ownerPc' = "destroyed"
    /\ UNCHANGED <<poolMtx, poolTasks, isClosed, workerPc, workerTask, added, ran>>
    /\ UNCHANGED <<varsTimer, varsPool, varsBuffer, varsServer, varsDeque>>

WorkerNext(w) ==
    \/ WorkerLock(w)
    \/ WorkerTake(w)
    \/ WorkerRun(w)
    \/ WorkerExit(w)
    \/ WorkerWait(w)
    \/ WorkerWake(w)

OwnerNext ==
    \/ \E k \in TaskIds : AddTaskPush(k)
    \/ AddTaskNotify
    \/ DtorClose
    \/ DtorNotifyAll

NextThreadPool ==
    \/ \E w \in PoolWorkers : WorkerNext(w)
    \/ \E w \in PoolWorkers : SpuriousWake(w)
    \/ OwnerNext

(***************************************************************************)
(* BlockDeque: push_back, push_front, pop, clear, flush and Close.  Every  *)
(* operation holds mtx_ from its first statement to its return or to its   *)
(* wait, so each locked section is one step; a wait releases the mutex and *)
(* blocks the thread, and the thread's next step starts when it has been   *)
(* notified and holds the mutex again.                                     *)
(***************************************************************************)
\* capacity_, the item values, and the threads that push and pop.
DequeCapacity == 2
NumItems == 2
NumProducers == 2
NumConsumers == 2

Items == 1 .. NumItems
Producers == 1 .. NumProducers
Consumers == (NumProducers + 1) .. (NumProducers + NumConsumers)
DequeThreads == Producers \cup Consumers
NoArg == [item |-> 0, front |-> FALSE]

\* BlockDeque(MaxCapacity): empty, isClose_ = false, nobody inside.
InitDeque ==
    /\ deq_ = <<>>
    /\ isClose_ = FALSE
    /\ condConsumer_ = {}
    /\ condProducer_ = {}
    /\ dqPc = [t \in DequeThreads |-> "idle"]
    /\ dqArg = [t \in DequeThreads |-> NoArg]
    /\ ctlPc = "idle"

\* A push loop that lets one item more than capacity_ in.
IsFull_Above(d) == Len(d) > DequeCapacity

\* deq_.size() >= capacity_
IsFull(d) == Len(d) >= DequeCapacity

\* notify_one(): the wait sets that can result.
NotifyOne(waiting) ==
    IF waiting = {} THEN {waiting} ELSE {waiting \ {w} : w \in waiting}

\* deq_.push_back(item) / deq_.push_front(item)
Inserted(d, arg) == IF arg.front THEN <<arg.item>> \o d ELSE Append(d, arg.item)

\* push_back / push_front from the test of the while loop on, with mtx_ held:
\* wait on condProducer_ while the queue is full, else insert and notify one
\* consumer.
PushLoop(t, arg) ==
    IF IsFull(deq_)
    THEN /\ condProducer_' = condProducer_ \cup {t}
         /\ dqPc' = [dqPc EXCEPT ![t] = "pwait"]
         /\ dqArg' = [dqArg EXCEPT ![t] = arg]
         /\ UNCHANGED <<deq_, condConsumer_>>
    ELSE /\ deq_' = Inserted(deq_, arg)
         /\ condConsumer_' \in NotifyOne(condConsumer_)
         /\ dqPc' = [dqPc EXCEPT ![t] = "idle"]
         /\ dqArg' = [dqArg EXCEPT ![t] = NoArg]
         /\ UNCHANGED condProducer_

\* A thread calls push_back(item) (front = FALSE) or push_front(item).
Push(t, item, front) ==
    /\ dqPc[t] = "idle"
    /\ PushLoop(t, [item |-> item, front |-> front])
    /\ UNCHANGED <<isClose_, ctlPc>>
    /\ UNCHANGED <<varsTimer, varsPool, varsBuffer, varsServer, varsThreadPool>>

\* condProducer_.wait(locker) returned: the loop tests the size again.
PushWake(t) ==
    /\ dqPc[t] = "pwait"
    /\ t \notin condProducer_
    /\ PushLoop(t, dqArg[t])
    /\ UNCHANGED <<isClose_, ctlPc>>
    /\ UNCHANGED <<varsTimer, varsPool, varsBuffer, varsServer, varsThreadPool>>

\* pop from the test of the while loop on, with mtx_ held: wait on
\* condConsumer_ while the queue is empty (waitPc: "cwait" for pop(item),
\* "twait" for pop(item, timeout)), else take the front item, notify one
\* producer and return true.
PopLoop(t, waitPc) ==
    IF deq_ = <<>>
    THEN /\ condConsumer_' = condConsumer_ \cup {t}
         /\ dqPc' = [dqPc EXCEPT ![t] = waitPc]
         /\ UNCHANGED <<deq_, condProducer_>>
    ELSE /\ deq_' = Tail(deq_)
         /\ condProducer_' \in NotifyOne(condProducer_)
         /\ dqPc' = [dqPc EXCEPT ![t] = "true"]
         /\ UNCHANGED condConsumer_

\* A thread calls pop(item) (timed = FALSE) or pop(item, timeout).
Pop(t, timed) ==
    /\ dqPc[t] = "idle"
    /\ PopLoop(t, IF timed THEN "twait" ELSE "cwait")
    /\ UNCHANGED <<isClose_, dqArg, ctlPc>>
    /\ UNCHANGED <<varsTimer, varsPool, varsBuffer, varsServer, varsThreadPool>>

\* condConsumer_.wait / wait_for returned without a timeout: return false if
\* the queue is closed, else test the loop condition again.
PopWake(t) ==
    /\ dqPc[t] \in {"cwait", "twait"}
    /\ t \notin condConsumer_
    /\ IF isClose_
       THEN /\ dqPc' = [dqPc EXCEPT ![t] = "false"]
            /\ UNCHANGED <<deq_, condConsumer_, condProducer_>>
       ELSE PopLoop(t, dqPc[t])
    /\ UNCHANGED <<isClose_, dqArg, ctlPc>>
    /\ UNCHANGED <<varsTimer, varsPool, varsBuffer, varsServer, varsThreadPool>>

\* pop(item, timeout): wait_for returned cv_status::timeout.
PopTimeout(t) ==
    /\ dqPc[t] = "twait"
    /\ t \in condConsumer_
    /\ condConsumer_' = condConsumer_ \ {t}
    /\ dqPc' = [dqPc EXCEPT ![t] = "false"]
    /\ UNCHANGED <<deq_, isClose_, condProducer_, dqArg, ctlPc>>
    /\ UNCHANGED <<varsTimer, varsPool, varsBuffer, varsServer, varsThreadPool>>

\* The caller of pop has its result and goes on.
PopReturn(t) ==
    /\ dqPc[t] \in {"true", "false"}
    /\ dqPc' = [dqPc EXCEPT ![t] = "idle"]
    /\ UNCHANGED <<deq_, isClose_, condConsumer_, condProducer_, dqArg, ctlPc>>
    /\ UNCHANGED <<varsTimer, varsPool, varsBuffer, varsServer, varsThreadPool>>

\* condition_variable::wait and wait_for may return without a notification.
DequeSpuriousWake(t) ==
    /\ \/ /\ t \in condProducer_
          /\ condProducer_' = condProducer_ \ {t}
          /\ UNCHANGED condConsumer_
       \/ /\ t \in condConsumer_
          /\ condConsumer_' = condConsumer_ \ {t}
          /\ UNCHANGED condProducer_
    /\ UNCHANGED <<deq_, isClose_, dqPc, dqArg, ctlPc>>
    /\ UNCHANGED <<varsTimer, varsPool, varsBuffer, varsServer, varsThreadPool>>

\* clear(): deq_.clear() under the lock, no notification.
Clear ==
    /\ ctlPc = "idle"
    /\ deq_' = <<>>
    /\ UNCHANGED <<isClose_, condConsumer_, condProducer_, dqPc, dqArg, ctlPc>>
    /\ UNCHANGED <<varsTimer, varsPool, varsBuffer, varsServer, varsThreadPool>>

\* flush(): condConsumer_.notify_one()
Flush(from) ==
    /\ ctlPc = from
    /\ condConsumer_' \in NotifyOne(condConsumer_)
    /\ UNCHANGED <<deq_, isClose_, condProducer_, dqPc, dqArg, ctlPc>>
    /\ UNCHANGED <<varsTimer, varsPool, varsBuffer, varsServer, varsThreadPool>>

\* Close(): lock_guard; deq_.clear(); isClose_ = true; unlock.
CloseLocked(from, to) ==
    /\ ctlPc = from
    /\ deq_' = <<>>
    /\ isClose_' = TRUE
    /\ ctlPc' = to
    /\ UNCHANGED <<condConsumer_, condProducer_, dqPc, dqArg>>
    /\ UNCHANGED <<varsTimer, varsPool, varsBuffer, varsServer, varsThreadPool>>

\* Close(): condProducer_.notify_all()
CloseNotifyProducers(from, to) ==
    /\ ctlPc = from
    /\ condProducer_' = {}
    /\ ctlPc' = to
    /\ UNCHANGED <<deq_, isClose_, condConsumer_, dqPc, dqArg>>
    /\ UNCHANGED <<varsTimer, varsPool, varsBuffer, varsServer, varsThreadPool>>

\* Close(): condConsumer_.notify_all()
CloseNotifyConsumers(from, to) ==
    /\ ctlPc = from
    /\ condConsumer_' = {}
    /\ ctlPc' = to
    /\ UNCHANGED <<deq_, isClose_, condProducer_, dqPc, dqArg>>
    /\ UNCHANGED <<varsTimer, varsPool, varsBuffer, varsServer, varsThreadPool>>

\* The steps a thread blocked in, or returning from, push or pop takes by
\* itself.
DequeProgress(t) == PushWake(t) \/ PopWake(t) \/ PopReturn(t)

\* The steps of a Close call in progress.
CloseProgress ==
    \/ CloseNotifyProducers("notifyProducers", "notifyConsumers")
    \/ CloseNotifyConsumers("notifyConsumers", "idle")

NextDeque ==
    \/ \E t \in Producers, item \in Items, front \in BOOLEAN : Push(t, item, front)
    \/ \E t \in Consumers, timed \in BOOLEAN : Pop(t, timed)
    \/ \E t \in DequeThreads : DequeProgress(t)
    \/ \E t \in Consumers : PopTimeout(t)
    \/ \E t \in DequeThreads : DequeSpuriousWake(t)
    \/ Clear
    \/ Flush("idle")
    \/ CloseLocked("idle", "notifyProducers")
    \/ CloseProgress

(***************************************************************************)
(* Log: the asynchronous writer thread and the destructor, on the queue    *)
(* above.                                                                  *)
(***************************************************************************)
\* The thread init started on FlushLogThread.
Writer == NumProducers + 1

\* A thread that calls Log::write (the callers take turns: write holds the
\* log's mtx_ around the two calls below).
Logger == 1

\* Log::write, asynchronous branch: deque_->full() returned false, the line
\* is about to be pushed (a full queue makes write call fputs itself).
LogWriteCheck(item) ==
    /\ ctlPc = "idle"
    /\ dqPc[Logger] = "idle"
    /\ dqArg[Logger] = NoArg
    /\ ~IsFull(deq_)
    /\ dqArg' = [dqArg EXCEPT ![Logger] = [item |-> item, front |-> FALSE]]
    /\ UNCHANGED <<deq_, isClose_, condConsumer_, condProducer_, dqPc, ctlPc>>
    /\ UNCHANGED <<varsTimer, varsPool, varsBuffer, varsServer, varsThreadPool>>

\* Log::write: deque_->push_back(buff_.RetrieveAllToStr())
LogWritePush ==
    /\ dqArg[Logger] # NoArg
    /\ Push(Logger, dqArg[Logger].item, FALSE)

\* AsyncWrite_: while (deque_->pop(str))
WriterPop == Pop(Writer, FALSE)

\* AsyncWrite_: pop returned true; fputs under mtx_, then the loop calls pop
\* again.  A pop that returned false ends the loop and the thread.
WriterFputs ==
    /\ dqPc[Writer] = "true"
    /\ dqPc' = [dqPc EXCEPT ![Writer] = "idle"]
    /\ UNCHANGED <<deq_, isClose_, condConsumer_, condProducer_, dqArg, ctlPc>>
    /\ UNCHANGED <<varsTimer, varsPool, varsBuffer, varsServer, varsThreadPool>>

WriterExited == dqPc[Writer] = "false"

\* ~Log: writeThread_ is joinable, the destructor starts to drain the queue.
LogDtorBegin ==
    /\ ctlPc = "idle"
    /\ ctlPc' = "drain"
    /\ UNCHANGED <<deq_, isClose_, condConsumer_, condProducer_, dqPc, dqArg>>
    /\ UNCHANGED <<varsTimer, varsPool, varsBuffer, varsServer, varsThreadPool>>

\* ~Log: while (!deque_->empty()) deque_->flush();
LogDtorFlush == deq_ # <<>> /\ Flush("drain")

\* ~Log: deque_->empty() returned true, the loop ends.
LogDtorDrained ==
    /\ ctlPc = "drain"
    /\ deq_ = <<>>
    /\ ctlPc' = "close"
    /\ UNCHANGED <<deq_, isClose_, condConsumer_, condProducer_, dqPc, dqArg>>
    /\ UNCHANGED <<varsTimer, varsPool, varsBuffer, varsServer, varsThreadPool>>

\* ~Log: writeThread_->join() returns once the writer thread has ended.
LogDtorJoin ==
    /\ ctlPc = "join"
    /\ WriterExited
    /\ ctlPc' = "joined"
    /\ UNCHANGED <<deq_, isClose_, condConsumer_, condProducer_, dqPc, dqArg>>
    /\ UNCHANGED <<varsTimer, varsPool, varsBuffer, varsServer, varsThreadPool>>

WriterNext == WriterPop \/ PopWake(Writer) \/ WriterFputs

LogDtorNext ==
    \/ LogDtorFlush
    \/ LogDtorDrained
    \/ CloseLocked("close", "dtorNotifyProducers")
    \/ CloseNotifyProducers("dtorNotifyProducers", "dtorNotifyConsumers")
    \/ CloseNotifyConsumers("dtorNotifyConsumers", "join")
    \/ LogDtorJoin

NextLog ==
    \/ \E item \in Items : LogWriteCheck(item)
    \/ LogWritePush
    \/ WriterNext
    \/ DequeSpuriousWake(Writer)
    \/ LogDtorBegin
    \/ LogDtorNext

vars == <<now, timer_, lastFired, connQue_, semId_, mtx_, poolPc, poolSql, opened,
         buff_, shadow, bufOp, retrieved, port_, listenFd_, listenEvent_, connEvent_,
         timeoutMS_, users_,
         userCount, openFds, epoll, backlog, listenEdge, tasks, wk, rpc, timeMS,
         accepts, busySent, poolMtx, poolTasks, isClosed, condWait, workerPc,
         workerTask, ownerPc, added, ran, deq_, isClose_, condConsumer_,
         condProducer_, dqPc, dqArg, ctlPc>>

Init == InitTimer /\ InitPool /\ InitBuffer /\ InitServer /\ InitThreadPool
        /\ InitDeque

Spec == Init /\ [][Next]_vars

SpecListen == Init /\ [][NextListen]_vars

SpecTimer == Init /\ [][NextTimer]_vars

SpecPool == Init /\ [][NextPool]_vars

SpecPoolClose == Init /\ [][NextPoolClose]_vars

\* The threads are scheduled: a worker that can take a step takes one (the
\* mutex is handed to a thread that keeps asking for it), and the owner
\* finishes the AddTask or destructor it began.
FairThreadPool ==
    /\ \A w \in PoolWorkers : SF_vars(WorkerNext(w))
    /\ WF_vars(AddTaskNotify)
    /\ WF_vars(DtorNotifyAll)

SpecThreadPool == Init /\ [][NextThreadPool]_vars /\ FairThreadPool

\* A thread that has been notified, or has its result, goes on, and a Close
\* call that began finishes.  Nothing obliges a thread to call the queue, a
\* wait to end without a notification, or a timed wait to be used.
FairDeque ==
    /\ \A t \in DequeThreads : WF_vars(DequeProgress(t))
    /\ WF_vars(CloseProgress)

SpecDeque == Init /\ [][NextDeque]_vars /\ FairDeque

\* The writer thread and the destructor are scheduled whenever they can step;
\* a wait ends only on a notification.
FairLog == WF_vars(WriterNext) /\ WF_vars(LogDtorNext)

SpecLog == Init /\ [][NextLog]_vars /\ FairLog

SpecBuffer == Init /\ [][NextBuffer]_vars

SpecLogBuffer == Init /\ [][NextLogBuffer]_vars

\* The handles handed out by GetConn and not yet given back by FreeConn.
Borrowed == {t \in PoolThreads : poolPc[t] = "hold"}
\* How often handle h is in the queue.
InQueue(h) == Cardinality({i \in 1 .. Len(connQue_) : connQue_[i] = h})
HeldBy(h) == {t \in Borrowed : poolSql[t] = h}

\* C4: after Init with N handles, in every reachable state the handles in
\* connQue_ plus the handles handed out and not yet given back are N; every
\* handle Init opened is in exactly one place (the queue, or one borrower),
\* and a handle handed out is one FreeConn accepts.
C4_Conservation ==
    /\ \A h \in opened : InQueue(h) + Cardinality(HeldBy(h)) = 1
    /\ \A t \in Borrowed : poolSql[t] \in opened
    /\ opened = Handles => Len(connQue_) + Cardinality(Borrowed) = PoolSize

\* C4 witness: every handle is handed out and another thread waits for one.
C4_AllBorrowed ==
    /\ opened = Handles
    /\ Cardinality(Borrowed) = PoolSize
    /\ connQue_ = <<>>
    /\ \A h \in Handles : \E t \in Borrowed : poolSql[t] = h
    /\ \E t \in PoolThreads : poolPc[t] = "sem_wait"

\* The heap_ array is a binary min-heap on expires.
IsMinHeap(t) ==
    \A i \in 0 .. HeapSize(t) - 1 :
        /\ 2 * i + 1 < HeapSize(t) => HeapAt(t, 2 * i + 1).expires >= HeapAt(t, i).expires
        /\ 2 * i + 2 < HeapSize(t) => HeapAt(t, 2 * i + 2).expires >= HeapAt(t, i).expires

\* ref_ maps every node's id to its index, has one entry per node, and no
\* id is in the heap twice.
RefConsistent(t) ==
    /\ \A i \in 0 .. HeapSize(t) - 1 :
          HeapAt(t, i).id \in DOMAIN t.ref_ /\ t.ref_[HeapAt(t, i).id] = i
    /\ Cardinality(DOMAIN t.ref_) = HeapSize(t)
    /\ \A i, j \in 0 .. HeapSize(t) - 1 : HeapAt(t, i).id = HeapAt(t, j).id => i = j

\* C3: after any sequence of add, adjust, doWork, pop and tick, heap_ is a
\* binary min-heap on expires, ref_[heap_[i].id] = i for every i, ref_ has
\* exactly one entry per node and no id appears twice.
C3_HeapInvariant == IsMinHeap(timer_) /\ RefConsistent(timer_)

\* C5: after any sequence of the public Buffer operations, HasWritten with
\* the length a formatter returned included, 0 <= readPos_ <= writePos_ <=
\* buffer_.size().
C5_CursorsInRange == CursorsInRange(buff_)

\* C6: the readable span equals, byte for byte, everything appended minus
\* the prefix retrieved, and RetrieveAllToStr returns exactly that and leaves
\* the buffer empty.
C6_ReadableIsAppended ==
    /\ ReadableSpan(buff_) = shadow
    /\ retrieved.got = retrieved.want
    /\ bufOp[1] = "RetrieveAllToStr" => ReadableBytes(buff_) = 0

\* C6 witness: an Append that compacted the storage, with earlier bytes
\* still unread, on a buffer that had grown before.
C6_CompactedAfterGrowth ==
    /\ bufOp = <<"Append", "compact">>
    /\ Len(buff_.buffer_) > InitBuffSize
    /\ Len(shadow) >= 2
    /\ shadow[1] # shadow[Len(shadow)]

(***************************************************************************)
(* WebServer claims.                                                       *)
(***************************************************************************)
\* The workers in the middle of a task, and the connection each works on.
Active(w) == wk[w].pc = "finish"

\* C1: at no instant do two workers run a task (OnRead_, OnProcess,
\* OnWrite_) on the same connection object users_[fd].
C1_OneWorkerPerConnection ==
    \A w1, w2 \in Workers :
        (w1 # w2 /\ Active(w1) /\ Active(w2)) => wk[w1].fd # wk[w2].fd

\* The connections that are live: initialised and not closed.
LiveConns == {fd \in Fds : ~users_[fd].isClose}

C7_WaitHasDeadline ==
    (rpc = "wait" /\ timeoutMS_ > 0 /\ LiveConns # {}) => timeMS >= 0

\* The step in which worker w runs OnWrite_ up to its last call.
RunsOnWrite(w) == wk[w].pc = "idle" /\ wk'[w].pc = "finish" /\ wk'[w].op = "write"
\* The step in which worker w makes the last call of its task.
MakesLastCall(w) == wk[w].pc = "finish" /\ wk'[w].pc = "idle"

\* C8: when ToWriteBytes() is 0 after the write, OnWrite_ on a connection
\* that is not keep-alive goes on to CloseConn_ and to no ModFd, and the
\* connection is closed and unregistered by it; on a keep-alive connection
\* it goes through OnProcess to a ModFd, for EPOLLIN when no request is
\* buffered, and that call closes nothing.
C8_CompleteResponse ==
    [][\A w \in Workers :
          /\ (RunsOnWrite(w) /\ wk'[w].io = "done") =>
                LET c == users_[wk'[w].fd]
                IN  IF c.keepAlive
                    THEN /\ wk'[w].next \in {"EPOLLIN", "EPOLLOUT"}
                         /\ ~c.inBuf => wk'[w].next = "EPOLLIN"
                    ELSE wk'[w].next = "close"
          /\ MakesLastCall(w) =>
                LET fd == wk[w].fd
                IN  IF wk[w].next = "close"
                    THEN users_'[fd].isClose /\ epoll'[fd] = NoReg
                    ELSE /\ UNCHANGED <<users_, userCount, openFds>>
                         /\ epoll[fd] # NoReg =>
                               epoll'[fd] = [ev |-> connEvent_ \cup {wk[w].next},
                                             armed |-> TRUE]
      ]_vars

\* C8's case: a worker has written a keep-alive response completely and is
\* about to re-arm the connection for reading.
C8_KeepAliveRearm ==
    \E w \in Workers :
        /\ Active(w) /\ wk[w].op = "write" /\ wk[w].io = "done"
        /\ wk[w].next = "EPOLLIN"
        /\ users_[wk[w].fd].keepAlive
        /\ ~users_[wk[w].fd].isClose

\* C9: OnWrite_ goes on to CloseConn_ only after a complete response on a
\* connection that is not keep-alive or after a write error other than
\* would-block; whenever bytes remain and there was no such error it goes
\* on to ModFd for EPOLLOUT.
C9_CloseOnlyWhenDoneOrError ==
    [][\A w \in Workers :
          RunsOnWrite(w) =>
             LET c == users_[wk'[w].fd]
                 io == wk'[w].io
             IN  /\ wk'[w].next = "close" =>
                        (io = "done" /\ ~c.keepAlive) \/ io = "error"
                 /\ io \in {"again", "part"} => wk'[w].next = "EPOLLOUT"
      ]_vars

\* C10: a successful accept with userCount < MAX_FD installs the
\* connection: live on the accepted descriptor, counted, registered and
\* armed, with a timer when timeoutMS_ > 0.  One with userCount >= MAX_FD
\* sends "Server busy!" and leaves connections, descriptors, registrations,
\* timers and userCount as they were.
C10_AcceptOrBusy ==
    [][accepts' = accepts + 1 =>
          LET fd == LowestFree(openFds)
          IN  IF userCount >= MAX_FD
              THEN /\ busySent' = busySent + 1
                   /\ UNCHANGED <<users_, userCount, openFds, epoll, timer_>>
              ELSE /\ busySent' = busySent
                   /\ ~users_'[fd].isClose
                   /\ userCount' = userCount + 1
                   /\ openFds' = openFds \cup {fd}
                   /\ epoll'[fd] = [ev |-> {"EPOLLIN"} \cup connEvent_, armed |-> TRUE]
                   /\ timeoutMS_ > 0 => fd \in DOMAIN timer_'.ref_
      ]_vars

\* C10's case: a client was turned away while MAX_FD connections are live.
C10_TurnedAway == busySent > 0 /\ userCount = MAX_FD

(***************************************************************************)
(* SqlConnPool claims, continued.                                          *)
(***************************************************************************)
\* C11: with every handle Init opened, GetConn never returns to its caller
\* without a handle: no thread is at the "return nullptr" of GetConn.
C11_NeverWithoutHandle ==
    opened = Handles => \A t \in PoolThreads : poolPc[t] # "busy"

\* No thread is in the middle of GetConn or FreeConn.
PoolQuiescent == \A t \in PoolThreads : poolPc[t] \in {"start", "idle", "hold"}

\* C12: whenever no thread is in the middle of GetConn or FreeConn, semId_
\* equals connQue_.size(), after any sequence of Init, GetConn, FreeConn and
\* ClosePool.
C12_SemIsQueueSize == PoolQuiescent => semId_ = Len(connQue_)

(***************************************************************************)
(* ThreadPool claims.                                                      *)
(***************************************************************************)
AllExited == \A w \in PoolWorkers : workerPc[w] = "exited"

\* No task runs twice or before it was added, no two workers hold the same
\* task, and a worker running a task does not hold the pool mutex.
TaskRunsAtMostOnce ==
    /\ \A k \in TaskIds : ran[k] <= 1 /\ (k \notin added => ran[k] = 0)
    /\ \A w1, w2 \in PoolWorkers :
          (w1 # w2 /\ workerTask[w1] # NoTask) => workerTask[w1] # workerTask[w2]
    /\ \A w \in PoolWorkers :
          workerPc[w] = "run" => (poolMtx # w /\ workerTask[w] \in added /\ ran[workerTask[w]] = 0)

\* C13: every task passed to AddTask is executed exactly once, by one worker,
\* outside the pool mutex, and eventually: at most once at every moment, and
\* an added task leads to its one execution.
C13_EveryTaskOnce ==
    /\ []TaskRunsAtMostOnce
    /\ \A k \in TaskIds : (k \in added) ~> (ran[k] = 1)

C13_AllTasksRan == \A k \in TaskIds : ran[k] = 1

\* A worker leaves its loop only from the check that saw the pool closed and
\* the queue empty.
ExitsOnEmptyQueue ==
    \A w \in PoolWorkers :
        (workerPc[w] # "exited" /\ workerPc'[w] = "exited") =>
            (workerPc[w] = "check" /\ isClosed /\ poolTasks = <<>>)

\* C14: after the destructor closed the pool and notified all, every worker
\* eventually leaves its loop, only on seeing the queue empty, and the tasks
\* queued at destruction have run once all workers are out.
C14_WorkersDrainAndExit ==
    /\ [][ExitsOnEmptyQueue]_vars
    /\ [](AllExited => \A k \in added : ran[k] = 1)
    /\ (ownerPc = "destroyed") ~> AllExited

C14_QueuedAtDestruction == ownerPc = "destroyed" /\ poolTasks # <<>>

(***************************************************************************)
(* BlockDeque claims.                                                      *)
(***************************************************************************)
\* C15: once the queue is closed a push adds nothing, whether it was issued
\* after Close or was blocked on the full queue when Close happened: a closed
\* queue is empty.
C15_ClosedStaysEmpty == isClose_ => deq_ = <<>>

\* C16: pop on a closed, empty queue does not block forever: a consumer that
\* waits in pop(item) on a closed queue eventually has left the wait.
C16_ClosedPopReturns ==
    \A t \in Consumers :
        (isClose_ /\ dqPc[t] = "cwait") ~> (dqPc[t] # "cwait")

\* C18: the number of stored items never exceeds the capacity.
C18_SizeAtMostCapacity == Len(deq_) <= DequeCapacity

C18_ProducerBlockedOnFull ==
    /\ Len(deq_) = DequeCapacity
    /\ \E t \in Producers : dqPc[t] = "pwait"

\* The locked section of a Close call on a queue that is closed already.
CloseAgain == isClose_ /\ ctlPc = "idle" /\ ctlPc' = "notifyProducers"

\* C19: Close on an already-closed queue changes nothing: its locked section
\* leaves the contents and the flag as they were.
C19_CloseAgainIsNoOp ==
    [][CloseAgain => (deq_' = deq_ /\ isClose_' = isClose_)]_vars

\* C17: shutting the logger down terminates: once the destructor has closed
\* the queue, the writer thread ends and join returns.
C17_ShutdownTerminates == isClose_ ~> (ctlPc = "joined")

(***************************************************************************)
(* HeapTimer claims, continued.                                            *)
(***************************************************************************)
\* The indices of the nodes of id.
NodesOf(t, id) == {i \in 0 .. HeapSize(t) - 1 : HeapAt(t, i).id = id}

\* The heap is intact and holds exactly one node for id, with this deadline.
OneNodeExpiring(t, id, expires) ==
    /\ ~t.corrupt
    /\ Cardinality(NodesOf(t, id)) = 1
    /\ \A i \in NodesOf(t, id) : HeapAt(t, i).expires = expires

\* C20: last write wins: adjust(id, t2) on a node that add put there leaves
\* exactly one node for id, expiring at now + t2, and add(id, t, cb), on a new
\* or an existing id, leaves exactly one node for id, expiring at now + t and
\* carrying cb.
C20_LastWriteWins ==
    [][\A id \in TimerIds, timeout \in 0 .. MaxTimeoutMs :
          /\ (/\ ~timer_.corrupt
              /\ id \in DOMAIN timer_.ref_
              /\ timer_' = adjust(timer_, id, timeout, now))
                 => OneNodeExpiring(timer_', id, now + MS(timeout))
          /\ \A cb \in TimerCbs :
                (/\ ~timer_.corrupt
                 /\ \E oobLess \in BOOLEAN :
                       timer_' = add(timer_, id, timeout, cb, now, oobLess))
                   => /\ OneNodeExpiring(timer_', id, now + MS(timeout))
                      /\ \A i \in NodesOf(timer_', id) : HeapAt(timer_', i).cb = cb]_vars

(***************************************************************************)
(* Claims on GetNextTick, siftup_ and tick.                                *)
(***************************************************************************)
\* The step of Start in which GetNextTick, after its tick, computes its
\* return value.
GetNextTickReturns == rpc = "nexttick" /\ rpc' = "wait"

\* C21: GetNextTick returns -1 exactly when the heap is empty after its
\* tick, and max(0, root.expires - now) in milliseconds otherwise: never a
\* negative value for a non-empty heap.
C21_NextTickClamped ==
    [][GetNextTickReturns =>
          IF timer_.heap_ = <<>>
          THEN timeMS' = -1
          ELSE LET ms == DurationCastMS(HeapAt(timer_, 0).expires - now)
               IN  timeMS' = IF ms > 0 THEN ms ELSE 0]_vars

(***************************************************************************)
(* Buffer claims, continued.                                               *)
(***************************************************************************)
\* C22: a ReadFd that receives n bytes appends exactly those bytes, in order,
\* after the readable bytes, which stay as they were: the readable count
\* grows by n, whether the bytes fit the tail, overflow into the stage, or
\* all arrive through the stage.
C22_ReadFdAppendsExactly ==
    [][bufOp'[1] = "ReadFd" =>
          LET n == Len(shadow') - Len(shadow)
              data == SubSeq(shadow', Len(shadow) + 1, Len(shadow'))
          IN  /\ ReadableSpan(buff_') = ReadableSpan(buff_) \o data
              /\ ReadableBytes(buff_') = ReadableBytes(buff_) + n]_vars

C22_AllThroughStage == bufOp = <<"ReadFd", "stage">> /\ ReadableBytes(buff_) > 1

(***************************************************************************)
(* WebServer claims, continued.                                            *)
(***************************************************************************)
\* C23: a server constructed with a port outside [1024, 65535] has no listen
\* socket and is closed: Start returns without a wait, an accept or an event.
C23_BadPortNeverServes ==
    (rpc # "ctor" /\ (port_ < 1024 \/ port_ > 65535)) =>
        /\ rpc = "closed"
        /\ listenFd_ = NoListen
        /\ accepts = 0 /\ busySent = 0 /\ backlog = 0
        /\ userCount = 0 /\ openFds = {}
        /\ tasks = <<>>
        /\ \A fd \in Fds : epoll[fd] = NoReg

C23_ClosedByPort == rpc = "closed" /\ port_ = 65536

\* C24: siftup_ stops at the root and never reads or swaps an index outside
\* the heap, so no HeapTimer operation leaves the heap exchanged with memory
\* outside the vector.
C24_SiftupStaysInHeap == ~timer_.corrupt

\* C25: with an edge-triggered listener a DealListen_ call ends only when
\* accept yields no client (none waits, or no descriptor is free), so it
\* leaves no client waiting in the listen queue.
C25_EdgeListenDrains ==
    [][(rpc = "listen" /\ rpc' = "top" /\ "EPOLLET" \in listenEvent_) =>
          (backlog' = 0 \/ LowestFree(openFds') = 0)]_vars

\* A step that is a call of tick at the clock reading now, in which siftup_
\* stayed inside the heap.
TickStep ==
    /\ ~timer_.corrupt
    /\ ~timer_'.corrupt
    /\ now' = now
    /\ \E oobLess \in BOOLEAN :
          LET r == tick(timer_, now, oobLess)
          IN  timer_' = r.t /\ lastFired' = r.fired

\* C26: tick runs the callback of every node with expires <= now exactly
\* once, in non-decreasing order of expires, and removes those nodes; it runs
\* no callback of, and keeps, every node with expires > now.
C26_TickFiresExactlyExpired ==
    [][TickStep =>
          LET due == {i \in 0 .. HeapSize(timer_) - 1 : HeapAt(timer_, i).expires <= now}
          IN  /\ Len(lastFired') = Cardinality(due)
              /\ \A i \in due : \E k \in 1 .. Len(lastFired') : lastFired'[k] = HeapAt(timer_, i)
              /\ \A k \in 1 .. Len(lastFired') : lastFired'[k].expires <= now
              /\ \A k \in 1 .. Len(lastFired') - 1 :
                    lastFired'[k].expires <= lastFired'[k + 1].expires
              /\ \A i \in 0 .. HeapSize(timer_) - 1 :
                    HeapAt(timer_, i).expires > now =>
                       HeapAt(timer_, i).id \in DOMAIN timer_'.ref_
              /\ \A i \in 0 .. HeapSize(timer_') - 1 : HeapAt(timer_', i).expires > now]_vars

\* The tick of GetNextTick closes the live connection fd.
TimerCloses(fd) ==
    /\ rpc = "top" /\ rpc' = "nexttick"
    /\ ~users_[fd].isClose /\ users_'[fd].isClose

\* DealRead_ or DealWrite_ submits a task for fd, or AddClient_ installs fd,
\* with the inactivity timer in use.
DeadlineSet(fd) ==
    /\ timeoutMS_ > 0
    /\ ~timer_'.corrupt
    /\ \/ /\ rpc = "wait" /\ rpc' = "top"
          /\ Len(tasks') = Len(tasks) + 1
          /\ tasks'[Len(tasks')].fd = fd
       \/ /\ rpc = "listen"
          /\ users_[fd].isClose /\ ~users_'[fd].isClose

\* C27: every dispatched read or write event, and the accept, sets the
\* connection's deadline to now + timeoutMS, and the timer closes a
\* connection only when the clock has reached its deadline: never earlier
\* than timeoutMS after the connection's last event.
C27_NoEarlyTimeout ==
    [][\A fd \in Fds :
          /\ DeadlineSet(fd) =>
                /\ fd \in DOMAIN timer_'.ref_
                /\ HeapAt(timer_', timer_'.ref_[fd]).expires = now + MS(timeoutMS_)
          /\ TimerCloses(fd) =>
                /\ fd \in DOMAIN timer_.ref_
                /\ HeapAt(timer_, timer_.ref_[fd]).expires <= now]_vars

\* C28: in every trigger mode a registered client descriptor is armed for
\* exactly one of readable and writable and carries the one-shot flag, and
\* the descriptor of a closed connection is not registered.
C28_OneDirectionOneShot ==
    \A fd \in Fds :
        /\ epoll[fd] # NoReg =>
              /\ ("EPOLLIN" \in epoll[fd].ev) # ("EPOLLOUT" \in epoll[fd].ev)
              /\ "EPOLLONESHOT" \in epoll[fd].ev
        /\ users_[fd].isClose => epoll[fd] = NoReg

C28_RearmedForWrite ==
    \E fd \in Fds :
        /\ "EPOLLOUT" \in epoll[fd].ev
        /\ "EPOLLET" \in connEvent_ /\ "EPOLLET" \in listenEvent_

\* C29: EnsureWriteable(n) leaves WritableBytes() >= n and the readable bytes
\* as they were.  When writable + prependable < n the storage is resized to
\* writePos_ + n + 1 and both cursors stay; otherwise, when the tail is too
\* short, the capacity stays, the readable span moves to offset 0 and
\* readPos_ becomes 0; when the tail already holds n bytes nothing changes.
C29_EnsureWriteablePolicy ==
    [][\A n \in 0 .. MaxStrLen :
          DoEnsureWriteable(n) =>
              LET writable == Len(buff_.buffer_) - buff_.writePos_
                  prependable == buff_.readPos_
                  readable == buff_.writePos_ - buff_.readPos_
              IN  /\ Len(buff_'.buffer_) - buff_'.writePos_ >= n
                  /\ SubSeq(buff_'.buffer_, buff_'.readPos_ + 1, buff_'.writePos_)
                        = SubSeq(buff_.buffer_, buff_.readPos_ + 1, buff_.writePos_)
                  /\ writable >= n => buff_' = buff_
                  /\ (writable < n /\ writable + prependable < n) =>
                        /\ Len(buff_'.buffer_) = buff_.writePos_ + n + 1
                        /\ buff_'.readPos_ = buff_.readPos_
                        /\ buff_'.writePos_ = buff_.writePos_
                  /\ (writable < n /\ writable + prependable >= n) =>
                        /\ Len(buff_'.buffer_) = Len(buff_.buffer_)
                        /\ buff_'.readPos_ = 0
                        /\ buff_'.writePos_ = readable]_vars

\* C29 witness: an EnsureWriteable that compacted a buffer holding unread
\* bytes behind a consumed prefix.
C29_CompactedWithUnread ==
    /\ bufOp = <<"EnsureWriteable", "compact">>
    /\ ReadableBytes(buff_) > 0
    /\ buff_.readPos_ = 0

\* An EnsureWriteable that resized the storage.
C29_Resized ==
    /\ bufOp = <<"EnsureWriteable", "grow">>
    /\ Len(buff_.buffer_) > InitBuffSize

(***************************************************************************)
(* WebServer claims, continued.                                            *)
(***************************************************************************)
\* A client descriptor epoll can report readable or writable.
Dispatchable(fd) ==
    /\ epoll[fd].armed
    /\ "EPOLLIN" \in epoll[fd].ev \/ "EPOLLOUT" \in epoll[fd].ev

\* What the assert of adjust tests, and that the node is where ref_ says.
HasTimerNode(fd) ==
    /\ timer_.heap_ # <<>>
    /\ fd \in DOMAIN timer_.ref_
    /\ timer_.ref_[fd] < HeapSize(timer_)
    /\ HeapAt(timer_, timer_.ref_[fd]).id = fd

C30_IntactHasTimerNode ==
    (Running /\ timeoutMS_ > 0) =>
        \A fd \in Fds : Dispatchable(fd) => HasTimerNode(fd)

\* The tasks on connection fd that are queued or run by a worker.
InFlight(fd) ==
    Cardinality({i \in 1 .. Len(tasks) : tasks[i].fd = fd})
        + Cardinality({w \in Workers : Active(w) /\ wk[w].fd = fd})

\* EPOLLONESHOT disarms a descriptor from the dispatch of its task until the
\* ModFd that ends the task, so the one task in flight on a live, armed
\* descriptor was submitted for an earlier connection: that one was closed
\* and accept handed its number out again.
StaleTaskOn(fd) ==
    /\ InFlight(fd) = 1
    /\ epoll[fd].armed
    /\ ~users_[fd].isClose

\* C31: a task submitted for a connection that was closed and whose
\* descriptor accept handed out again has no effect on the new connection:
\* it reads nothing from it and writes nothing to it, does not change its
\* registration and does not close it.
C31_StaleTaskHasNoEffect ==
    [][\A w \in Workers :
          /\ (/\ tasks # <<>>
              /\ StaleTaskOn(Head(tasks).fd)
              /\ OnRead_(w) \/ OnWrite_(w))
                => users_'[Head(tasks).fd] = users_[Head(tasks).fd]
          /\ (Active(w) /\ StaleTaskOn(wk[w].fd) /\ TaskFinish(w))
                => /\ users_'[wk[w].fd] = users_[wk[w].fd]
                   /\ epoll'[wk[w].fd] = epoll[wk[w].fd]
                   /\ wk[w].fd \in openFds']_vars

(***************************************************************************)
(* SqlConnPool claims, continued.                                          *)
(***************************************************************************)
\* The threads that passed sem_wait and have not yet popped.
AboutToPop == {t \in PoolThreads : poolPc[t] = "pop"}
\* The threads that passed the unsynchronised test of GetConn and are still
\* inside GetConn.
PassedCheck == {t \in PoolThreads : poolPc[t] \in {"sem_wait", "pop"}}

\* C32: however GetConn and FreeConn calls interleave, several threads past
\* the unsynchronised empty-queue test at once included, every thread that
\* reaches the locked front()/pop() of GetConn finds an element for itself
\* in connQue_, and no handle is held by two borrowers at once.
C32_NoEmptyPopNoSharedHandle ==
    /\ Cardinality(AboutToPop) <= Len(connQue_)
    /\ \A t1, t2 \in Borrowed : t1 # t2 => poolSql[t1] # poolSql[t2]

\* C32 witness: two threads passed the empty-queue test for the one handle
\* left in the queue, the other handle is borrowed, and one of the two is
\* past sem_wait.
C32_TwoPassedCheckForOne ==
    /\ opened = Handles
    /\ Len(connQue_) = 1
    /\ Cardinality(Borrowed) = 1
    /\ Cardinality(PassedCheck) = 2
    /\ AboutToPop # {}

====
